---- MODULE Spec2Model ----
(***************************************************************************)
(* artmapper: the metadata-driven object-relational mapper                 *)
(* (EntityManager, RelationshipManager, QueryBuilder, SchemaGenerator)     *)
(* over the entity decorators' metadata store and a pooled SQL resource.   *)
(*                                                                         *)
(* Values.  A JavaScript value is a pair <<tag, payload>>:                 *)
(*   <<"nil", 0>>    null or undefined (the code tells them apart nowhere: *)
(*                   every test on a value is a truthiness test or ||)     *)
(*   <<"num", n>>    the number n                                          *)
(*   <<"str", s>>    the string s                                          *)
(*   <<"obj", r>>    an entity instance, r = [cls |-> class, props |-> f]  *)
(*   <<"list", q>>   an array of values                                    *)
(* An instance's props is a function from its own property names to        *)
(* values; a property that was never assigned is not in its domain.        *)
(***************************************************************************)
EXTENDS Integers, Sequences, FiniteSets, TLC

Nil == <<"nil", 0>>
Num(n) == <<"num", n>>
Str(s) == <<"str", s>>
Obj(c, props) == <<"obj", [cls |-> c, props |-> props]>>
List(q) == <<"list", q>>

IsObj(v) == v[1] = "obj"

\* JavaScript truthiness: null, undefined, 0 and "" are falsy.
Truthy(v) == v \notin {Nil, Num(0), Str("")}

\* a || b
OrElse(a, b) == IF Truthy(a) THEN a ELSE b

\* name || fallback, for strings where "" stands for an absent option
OrName(a, b) == IF a # "" THEN a ELSE b

\* entity[p]: reading a property that was never assigned gives undefined
Get(props, p) == IF p \in DOMAIN props THEN props[p] ELSE Nil

\* entity[p] = v
Put(props, p, v) == [q \in (DOMAIN props) \cup {p} |-> IF q = p THEN v ELSE props[q]]

NoProps == [q \in {} |-> Nil]

----
(***************************************************************************)
(* The metadata store: what the decorators of core/decorators/entity.ts    *)
(* and core/decorators/mapping.ts record per class.  "" stands for an      *)
(* absent (undefined) string, <<>> for an absent map.  A map whose key     *)
(* order matters (Object.keys) is a sequence of records with field prop.   *)
(***************************************************************************)

EmptyMeta ==
  [ entity     |-> "",      \* ENTITY_METADATA_KEY    {name}
    table      |-> "",      \* TABLE_METADATA_KEY     {name}
    columns    |-> <<>>,    \* COLUMN_METADATA_KEY    prop -> {name}
    id         |-> "",      \* ID_METADATA_KEY        property name
    generated  |-> "",      \* GENERATED_VALUE_METADATA_KEY {strategy}
    oneToMany  |-> <<>>,    \* ONE_TO_MANY_METADATA_KEY
    manyToOne  |-> <<>>,    \* MANY_TO_ONE_METADATA_KEY
    manyToMany |-> <<>>,    \* MANY_TO_MANY_METADATA_KEY
    oneToOne   |-> <<>>,    \* ONE_TO_ONE_METADATA_KEY
    joinColumn |-> <<>>,    \* JOIN_COLUMN_METADATA_KEY
    joinTable  |-> <<>>,    \* JOIN_TABLE_METADATA_KEY
    sameAs     |-> [key \in {"columns", "oneToMany", "manyToOne", "manyToMany", "oneToOne"}
                       |-> ""] ]  \* per key, the superclass whose object this class holds

\* The argument a decorator factory receives as `options`.  The joinColumn
\* option is "" (left out), "string" (joinColumnName is the string) or
\* "object" ({name: joinColumnName, referencedColumnName}).  The joinTable
\* option likewise: "" (left out), "string" (joinTableName is the string) or
\* "object" ({name: joinTableName, joinColumns, inverseJoinColumns}); a
\* joinColumns array is the sequence of its elements' names.
\*   kind "none"   called with no argument
\*   kind "object" an options object; "" marks an option left out
\*   kind "thunk"  a function, as in the two-argument form OneToMany(() => T, {...}):
\*                 the factory has one parameter, so the thunk is `options`
\*                 and the second argument is dropped
NoOptions ==
  [ kind |-> "none", name |-> "", strategy |-> "", targetEntity |-> "", fetch |-> "",
    mappedBy |-> "", joinColumn |-> "", joinColumnName |-> "",
    referencedColumnName |-> "", joinTable |-> "", joinTableName |-> "",
    joinColumns |-> <<>>, inverseJoinColumns |-> <<>> ]

Options(r) == [f \in DOMAIN NoOptions |->
                 IF f = "kind" THEN "object"
                 ELSE IF f \in DOMAIN r THEN r[f] ELSE NoOptions[f]]

\* () => c as the first argument: a function object, which keeps the class it
\* returns to itself until it is called
Thunk(c) == [NoOptions EXCEPT !.kind = "thunk", !.targetEntity = c]

\* options?.f : a function object and undefined have none of the options
Opt(options, f) == IF options.kind = "object" THEN options[f] ELSE ""

\* options?.f for an array-valued option
OptList(options, f) == IF options.kind = "object" THEN options[f] ELSE <<>>

\* columns?.[0]?.name
FirstName(columns) == IF Len(columns) > 0 THEN columns[1] ELSE ""

\* map[prop] = entry, on a key-ordered map: an existing key keeps its place
MapPut(map, entry) ==
  IF \E i \in 1..Len(map) : map[i].prop = entry.prop
    THEN [i \in 1..Len(map) |-> IF map[i].prop = entry.prop THEN entry ELSE map[i]]
    ELSE Append(map, entry)

HasKey(map, p) == \E i \in 1..Len(map) : map[i].prop = p

\* map[p], for a key the map has
Lookup(map, p) == map[CHOOSE i \in 1..Len(map) : map[i].prop = p]

Keys(map) == [i \in 1..Len(map) |-> map[i].prop]

\* @Entity(name)
Entity(meta, className, name) == [meta EXCEPT !.entity = OrName(name, className)]

\* @Table(name)
Table(meta, name) == [meta EXCEPT !.table = name]

\* a declaration that starts the descriptors over:
\* defineMetadata(KEY, {[propertyKey]: {...}}, target.constructor)
ColumnAlone(meta, propertyKey, options) ==
  [meta EXCEPT !.columns =
     <<[prop |-> propertyKey, name |-> OrName(Opt(options, "name"), propertyKey)]>>]

\* @Column(options) on propertyKey
Column(meta, propertyKey, options) ==
  [meta EXCEPT !.columns =
     MapPut(@, [prop |-> propertyKey, name |-> OrName(Opt(options, "name"), propertyKey)])]

\* @Id() on propertyKey
Id(meta, propertyKey) == [meta EXCEPT !.id = propertyKey]

\* @GeneratedValue(options) on propertyKey
GeneratedValue(meta, propertyKey, options) ==
  [meta EXCEPT !.generated = OrName(Opt(options, "strategy"), "AUTO")]

RelationEntry(propertyKey, options, defaultFetch) ==
  [ prop         |-> propertyKey,
    targetEntity |-> Opt(options, "targetEntity"),
    fetch        |-> OrName(Opt(options, "fetch"), defaultFetch),
    mappedBy     |-> "",
    joinColumn   |-> "",
    joinColumnName |-> "",
    referencedColumnName |-> "",
    joinTable    |-> "",
    joinTableName |-> "",
    joinColumns  |-> <<>>,
    inverseJoinColumns |-> <<>> ]

\* @OneToMany(options) on propertyKey
OneToMany(meta, propertyKey, options) ==
  [meta EXCEPT !.oneToMany =
     MapPut(@, [RelationEntry(propertyKey, options, "LAZY")
                  EXCEPT !.mappedBy = Opt(options, "mappedBy")])]

\* @ManyToOne(options) on propertyKey
ManyToOne(meta, propertyKey, options) ==
  [meta EXCEPT !.manyToOne =
     MapPut(@, [RelationEntry(propertyKey, options, "EAGER")
                  EXCEPT !.joinColumn = Opt(options, "joinColumn"),
                         !.joinColumnName = Opt(options, "joinColumnName"),
                         !.referencedColumnName = Opt(options, "referencedColumnName")])]

\* @ManyToMany(options) on propertyKey
ManyToMany(meta, propertyKey, options) ==
  [meta EXCEPT !.manyToMany =
     MapPut(@, [RelationEntry(propertyKey, options, "LAZY")
                  EXCEPT !.joinTable = Opt(options, "joinTable"),
                         !.joinTableName = Opt(options, "joinTableName"),
                         !.joinColumns = OptList(options, "joinColumns"),
                         !.inverseJoinColumns = OptList(options, "inverseJoinColumns")])]

\* @OneToOne(options) on propertyKey: mappedBy is not recorded
OneToOne(meta, propertyKey, options) ==
  [meta EXCEPT !.oneToOne =
     MapPut(@, [RelationEntry(propertyKey, options, "EAGER")
                  EXCEPT !.joinColumn = Opt(options, "joinColumn"),
                         !.joinColumnName = Opt(options, "joinColumnName"),
                         !.referencedColumnName = Opt(options, "referencedColumnName")])]

\* @JoinColumn(options) on propertyKey
JoinColumn(meta, propertyKey, options) ==
  [meta EXCEPT !.joinColumn =
     MapPut(@, [ prop |-> propertyKey,
                 name |-> OrName(Opt(options, "name"), propertyKey \o "_id"),
                 referencedColumnName |->
                   OrName(Opt(options, "referencedColumnName"), "id") ])]

\* @JoinTable(options) on propertyKey of class className
JoinTable(meta, className, propertyKey, options) ==
  [meta EXCEPT !.joinTable =
     MapPut(@, [ prop |-> propertyKey,
                 name |-> OrName(Opt(options, "name"), className \o "_" \o propertyKey),
                 joinColumns |-> OptList(options, "joinColumns"),
                 inverseJoinColumns |-> OptList(options, "inverseJoinColumns") ])]

----
(***************************************************************************)
(* The classes the application declares.  They are the framework's input;  *)
(* each is written as the decorator applications of its declaration, in    *)
(* evaluation order (members top to bottom, class decorators last).        *)
(*                                                                         *)
(*   Item   @Entity()  id: @Id @GeneratedValue() @Column()                 *)
(*                     name: @Column({name: 'item_name'})                  *)
(*                     tags: @OneToMany({targetEntity: () => Tag,          *)
(*                                       mappedBy: 'itemId'})            *)
(*   Tag    @Entity('Tag') @Table('tags')                                  *)
(*                     id: @Id @GeneratedValue({strategy: 'IDENTITY'})     *)
(*                         @Column({name: 'tag_id'})                       *)
(*                     label: @Column()                                    *)
(*                     item: @ManyToOne({targetEntity: () => Item})        *)
(*   Memo   @Entity() @Table('memos')   key: @Id @Column()  (no strategy)  *)
(*                     text: @Column()                                     *)
(*   Note   @Entity() @Table('notes')   text: @Column()     (no @Id)       *)
(*   Stock  @Entity() @Table('stock')   sku: @Id @Column()  (no strategy)  *)
(*                     count: @Column({name: 'qty'})                       *)
(*                     place: @Column()                                    *)
(*   Plain  @Table('item')   id: @Id @GeneratedValue() @Column()           *)
(*                     name: @Column()                      (no @Entity)   *)
(*   User   @Entity('User') @Table('users')                                *)
(*                     id: @Id @GeneratedValue() @Column()                 *)
(*                     name: @Column({name: 'user_name'})                  *)
(*                     posts:  @OneToMany({targetEntity: () => Post,       *)
(*                                         mappedBy: 'author_id'})         *)
(*                     drafts: @OneToMany({targetEntity: () => Post})      *)
(*                     written: @OneToMany({targetEntity: () => Post,      *)
(*                                          mappedBy: 'author'})           *)
(*                     liked:  @ManyToMany({targetEntity: () => Post,      *)
(*                                          fetch: 'EAGER'})               *)
(*                     starred: @ManyToMany({targetEntity: () => Post})    *)
(*                              @JoinTable({name: 'likes',                 *)
(*                                joinColumns: [{name: 'liker'}],          *)
(*                                inverseJoinColumns: [{name: 'post'}]})   *)
(*                     saved:  @ManyToMany({targetEntity: () => Post})     *)
(*                             @JoinTable()                                *)
(*                     pinned: @ManyToMany({targetEntity: () => Post,      *)
(*                                          joinTable: 'user_liked'})      *)
(*                     shared: @ManyToMany({targetEntity: () => Post,      *)
(*                               joinTable: {name: 'user_liked',           *)
(*                                 joinColumns: [{name: 'user_id'}]}})     *)
(*   Post   @Entity('Post') @Table('posts')                                *)
(*                     id: @Id @GeneratedValue() @Column()                 *)
(*                     author_id: @Column()                                *)
(*                     editor_id: @ManyToOne({targetEntity: () => User})   *)
(*                                @Column()                                *)
(*                     user_id: @ManyToOne(() => User, {fetch: 'EAGER'})   *)
(*                              @Column()                                  *)
(*                     author:   @ManyToOne({targetEntity: () => User})    *)
(*                     editor:   @ManyToOne({targetEntity: () => User,     *)
(*                                           fetch: 'LAZY'})               *)
(*                     owner:    @OneToOne({targetEntity: () => User,      *)
(*                                          joinColumn: 'author_id'})      *)
(*                     reviewer: @ManyToOne(() => User, {fetch: 'EAGER'})  *)
(*                               @JoinColumn({name: 'editor_id'})          *)
(*                     approver: @ManyToOne({targetEntity: () => User,     *)
(*                                 fetch: 'LAZY', joinColumn: 'user_id'})  *)
(*                     auditor:  @ManyToOne({targetEntity: () => User,     *)
(*                                 fetch: 'LAZY',                          *)
(*                                 joinColumn: {name: 'editor_id'}})       *)
(*                     signer:   @ManyToOne({targetEntity: () => User,     *)
(*                                 fetch: 'LAZY', joinColumn: 'user_id'})  *)
(*                               @JoinColumn({name: 'author_id'})          *)
(*                     proofer:  @ManyToOne({targetEntity: () => User,     *)
(*                                 fetch: 'LAZY'})                         *)
(*                               @JoinColumn()                             *)
(*                     checker:  @ManyToOne({targetEntity: () => User,     *)
(*                                 fetch: 'LAZY'})                         *)
(*                               @JoinColumn({name: 'editor_id',           *)
(*                                 referencedColumnName: 'user_name'})     *)
(*                     sponsor:  @ManyToOne({targetEntity: () => User,     *)
(*                                 fetch: 'LAZY',                          *)
(*                                 joinColumn: {name: 'author_id',         *)
(*                                   referencedColumnName: 'user_name'}})  *)
(***************************************************************************)

ItemDecl ==
  LET m1 == Column(GeneratedValue(Id(EmptyMeta, "id"), "id", NoOptions), "id", NoOptions)
      m2 == Column(m1, "name", Options([name |-> "item_name"]))
      m3 == OneToMany(m2, "tags", Options([targetEntity |-> "Tag", mappedBy |-> "itemId"]))
  IN  Entity(m3, "Item", "")

TagDecl ==
  LET m1 == Column(GeneratedValue(Id(EmptyMeta, "id"), "id", Options([strategy |-> "IDENTITY"])),
                   "id", Options([name |-> "tag_id"]))
      m2 == Column(m1, "label", NoOptions)
      m3 == ManyToOne(m2, "item", Options([targetEntity |-> "Item"]))
  IN  Entity(Table(m3, "tags"), "Tag", "Tag")

MemoDecl ==
  LET m1 == Column(Id(EmptyMeta, "key"), "key", NoOptions)
      m2 == Column(m1, "text", NoOptions)
  IN  Entity(Table(m2, "memos"), "Memo", "")

StockDecl ==
  LET m1 == Column(Id(EmptyMeta, "sku"), "sku", NoOptions)
      m2 == Column(Column(m1, "count", Options([name |-> "qty"])), "place", NoOptions)
  IN  Entity(Table(m2, "stock"), "Stock", "")

NoteDecl ==
  Entity(Table(Column(EmptyMeta, "text", NoOptions), "notes"), "Note", "")

PlainDecl ==
  LET m1 == Column(GeneratedValue(Id(EmptyMeta, "id"), "id", NoOptions), "id", NoOptions)
  IN  Table(Column(m1, "name", NoOptions), "item")

UserDecl ==
  LET m1 == Column(GeneratedValue(Id(EmptyMeta, "id"), "id", NoOptions), "id", NoOptions)
      m2 == Column(m1, "name", Options([name |-> "user_name"]))
      m3 == OneToMany(m2, "posts", Options([targetEntity |-> "Post", mappedBy |-> "author_id"]))
      m4 == OneToMany(m3, "drafts", Options([targetEntity |-> "Post"]))
      m5 == ManyToMany(OneToMany(m4, "written",
                                 Options([targetEntity |-> "Post", mappedBy |-> "author"])),
                       "liked", Options([targetEntity |-> "Post", fetch |-> "EAGER"]))
      m6 == JoinTable(ManyToMany(m5, "starred", Options([targetEntity |-> "Post"])),
                      "User", "starred",
                      Options([name |-> "likes", joinColumns |-> <<"liker">>,
                               inverseJoinColumns |-> <<"post">>]))
      m7 == JoinTable(ManyToMany(m6, "saved", Options([targetEntity |-> "Post"])),
                      "User", "saved", NoOptions)
      m8 == ManyToMany(m7, "pinned", Options([targetEntity |-> "Post", joinTable |-> "string",
                                              joinTableName |-> "user_liked"]))
      m9 == ManyToMany(m8, "shared", Options([targetEntity |-> "Post", joinTable |-> "object",
                                              joinTableName |-> "user_liked",
                                              joinColumns |-> <<"user_id">>]))
  IN  Entity(Table(m9, "users"), "User", "User")

PostDecl ==
  LET m1 == Column(GeneratedValue(Id(EmptyMeta, "id"), "id", NoOptions), "id", NoOptions)
      m2 == ManyToOne(Column(ManyToOne(Column(Column(m1, "author_id", NoOptions),
                                              "editor_id", NoOptions),
                                       "editor_id", Options([targetEntity |-> "User"])),
                             "user_id", NoOptions),
                      "user_id", Thunk("User"))
      m3 == ManyToOne(m2, "author", Options([targetEntity |-> "User"]))
      m4 == ManyToOne(m3, "editor", Options([targetEntity |-> "User", fetch |-> "LAZY"]))
      m5 == OneToOne(m4, "owner", Options([targetEntity |-> "User", joinColumn |-> "string",
                                            joinColumnName |-> "author_id"]))
      m6 == JoinColumn(ManyToOne(m5, "reviewer", Thunk("User")), "reviewer",
                       Options([name |-> "editor_id"]))
      m7 == ManyToOne(m6, "approver", Options([targetEntity |-> "User", fetch |-> "LAZY",
                                               joinColumn |-> "string",
                                               joinColumnName |-> "user_id"]))
      m8 == ManyToOne(m7, "auditor", Options([targetEntity |-> "User", fetch |-> "LAZY",
                                              joinColumn |-> "object",
                                              joinColumnName |-> "editor_id"]))
      m9 == JoinColumn(ManyToOne(m8, "signer", Options([targetEntity |-> "User", fetch |-> "LAZY",
                                                        joinColumn |-> "string",
                                                        joinColumnName |-> "user_id"])),
                       "signer", Options([name |-> "author_id"]))
      m10 == JoinColumn(ManyToOne(m9, "proofer", Options([targetEntity |-> "User",
                                                          fetch |-> "LAZY"])),
                        "proofer", NoOptions)
      m11 == JoinColumn(ManyToOne(m10, "checker", Options([targetEntity |-> "User",
                                                           fetch |-> "LAZY"])),
                        "checker", Options([name |-> "editor_id",
                                            referencedColumnName |-> "user_name"]))
      m12 == ManyToOne(m11, "sponsor", Options([targetEntity |-> "User", fetch |-> "LAZY",
                                                joinColumn |-> "object",
                                                joinColumnName |-> "author_id",
                                                referencedColumnName |-> "user_name"]))
  IN  Entity(Table(m12, "posts"), "Post", "Post")

Classes == {"Item", "Tag", "Memo", "Stock", "Note", "Plain", "User", "Post"}

\* what evaluating the declaration of class c leaves in the store
Declared(c) ==
  CASE c = "Item"  -> ItemDecl
    [] c = "Tag"   -> TagDecl
    [] c = "Memo"  -> MemoDecl
    [] c = "Stock" -> StockDecl
    [] c = "Note"  -> NoteDecl
    [] c = "Plain" -> PlainDecl
    [] c = "User"  -> UserDecl
    [] c = "Post"  -> PostDecl

VARIABLE
  metadata  \* the Reflect metadata store: per class, what its decorators recorded

\* the store once every class declaration has been evaluated (module load)
Loaded == [c \in Classes |-> Declared(c)]

\* Reflect.getMetadata(KEY, entityClass), all keys of one class at once
Meta(c) == IF c \in DOMAIN metadata THEN metadata[c] ELSE EmptyMeta

\* entityClass.name.toLowerCase()
LowerCase(c) ==
  CASE c = "Item"  -> "item"
    [] c = "Tag"   -> "tag"
    [] c = "Memo"  -> "memo"
    [] c = "Stock" -> "stock"
    [] c = "Note"  -> "note"
    [] c = "Plain" -> "plain"
    [] c = "User"  -> "user"
    [] c = "Post"  -> "post"

\* tableMetadata?.name || entityClass.name.toLowerCase()
TableName(c) == OrName(Meta(c).table, LowerCase(c))

\* columnMetadata[prop].name || prop
ColumnName(c, prop) ==
  IF HasKey(Meta(c).columns, prop)
    THEN OrName(Lookup(Meta(c).columns, prop).name, prop)
    ELSE prop

\* idProperty ? columnMetadata[idProperty]?.name || idProperty : fallback
IdColumn(c, fallback) ==
  IF Meta(c).id # "" THEN ColumnName(c, Meta(c).id) ELSE fallback

----
(***************************************************************************)
(* The data-access resource (pool.execute): a SQL database holding, per    *)
(* table, its column list, its AUTO_INCREMENT primary-key column ("" when  *)
(* it has none), its rows in insertion order and its next generated id.    *)
(* A row is a function from the table's column names to values; SQL has    *)
(* one NULL, so what is stored and read back is Nil, a number or a string. *)
(* A statement is the record the SQL text and its bound parameters denote. *)
(***************************************************************************)

\* rows a table may hold, and the largest identifier it hands out
MaxRows == 2
MaxId == 2

NoStmt ==
  [ kind |-> "", table |-> "", cols |-> <<>>, where |-> "", params |-> <<>>,
    limit |-> 0, key |-> "", lastId |-> FALSE, wheres |-> <<>>,
    joinTable |-> "", joinColumn |-> "", inverseJoinColumn |-> "", targetIdColumn |-> "",
    select |-> "", joins |-> <<>>, orderBy |-> <<>> ]

EmptyDb == [t \in {} |-> [cols |-> <<>>, key |-> "", rows |-> <<>>, next |-> 1]]

Range(q) == {q[i] : i \in 1..Len(q)}

\* the subsequence of q at the indices where keep is TRUE
RECURSIVE Filter(_, _)
Filter(q, keep) ==
  IF q = <<>> THEN <<>>
  ELSE IF keep[1] THEN <<Head(q)>> \o Filter(Tail(q), Tail(keep))
       ELSE Filter(Tail(q), Tail(keep))

\* a scalar the driver can bind and a column can hold
Scalar(v) == v[1] \in {"nil", "num", "str"}

\* SQL's col = ? : NULL equals nothing
SqlEq(a, b) == a # Nil /\ b # Nil /\ a = b

Failed(d) == [db |-> d, ok |-> FALSE, rows |-> <<>>, insertId |-> 0]

ExecCreate(d, st) ==
  IF st.table \in DOMAIN d
    THEN [db |-> d, ok |-> TRUE, rows |-> <<>>, insertId |-> 0]
    ELSE [ db |-> [t \in (DOMAIN d) \cup {st.table} |->
                     IF t = st.table
                       THEN [cols |-> st.cols, key |-> st.key, rows |-> <<>>, next |-> 1]
                       ELSE d[t]],
           ok |-> TRUE, rows |-> <<>>, insertId |-> 0 ]

ExecInsert(d, st) ==
  LET t    == d[st.table]
      n    == Len(st.cols)
      \* the value the statement gives column c, NULL when it names it not
      given(c) == IF \E i \in 1..n : st.cols[i] = c
                    THEN st.params[CHOOSE i \in 1..n : st.cols[i] = c]
                    ELSE Nil
      \* AUTO_INCREMENT: NULL and 0 ask for the next identifier
      gen  == t.key # "" /\ given(t.key) \in {Nil, Num(0)}
      id   == IF t.key = "" THEN Nil
              ELSE IF gen THEN Num(t.next) ELSE given(t.key)
      row  == [c \in Range(t.cols) |-> IF c = t.key THEN id ELSE given(c)]
      dup  == t.key # "" /\ \E i \in 1..Len(t.rows) : t.rows[i][t.key] = id
      next == IF t.key # "" /\ id[1] = "num" /\ id[2] >= t.next THEN id[2] + 1 ELSE t.next
  IN  IF \/ Range(st.cols) \notin SUBSET Range(t.cols)
         \/ Cardinality(Range(st.cols)) # n
         \/ Len(st.params) # n
         \/ dup
        THEN Failed(d)
        ELSE [ db |-> [d EXCEPT ![st.table].rows = Append(@, row),
                                ![st.table].next = next],
               ok |-> TRUE, rows |-> <<>>,
               insertId |-> IF t.key # "" /\ id[1] = "num" THEN id[2] ELSE 0 ]

\* the rows of table t whose column st.where equals the last parameter
Matches(t, st) ==
  [i \in 1..Len(t.rows) |->
     st.where = "" \/ SqlEq(t.rows[i][st.where], st.params[Len(st.params)])]

ExecUpdate(d, st) ==
  LET t   == d[st.table]
      n   == Len(st.cols)
      hit == Matches(t, st)
      new(r) == [c \in Range(t.cols) |->
                   IF \E i \in 1..n : st.cols[i] = c
                     THEN st.params[CHOOSE i \in 1..n : st.cols[i] = c]
                     ELSE r[c]]
  IN  IF \/ n = 0
         \/ Range(st.cols) \notin SUBSET Range(t.cols)
         \/ st.where \notin Range(t.cols)
         \/ Len(st.params) # n + 1
        THEN Failed(d)
        ELSE [ db |-> [d EXCEPT ![st.table].rows =
                         [i \in 1..Len(t.rows) |-> IF hit[i] THEN new(t.rows[i]) ELSE t.rows[i]]],
               ok |-> TRUE, rows |-> <<>>, insertId |-> 0 ]

ExecDelete(d, st) ==
  LET t == d[st.table]
  IN  IF st.where \notin Range(t.cols) \/ Len(st.params) # 1
        THEN Failed(d)
        ELSE [ db |-> [d EXCEPT ![st.table].rows =
                         Filter(t.rows, [i \in 1..Len(t.rows) |-> ~Matches(t, st)[i]])],
               ok |-> TRUE, rows |-> <<>>, insertId |-> 0 ]

ExecSelect(d, st) ==
  LET t   == d[st.table]
      all == Filter(t.rows, Matches(t, st))
  IN  IF (st.where # "" /\ (st.where \notin Range(t.cols) \/ Len(st.params) # 1))
        THEN Failed(d)
        ELSE [ db |-> d, ok |-> TRUE,
               rows |-> IF st.limit > 0 /\ Len(all) > st.limit
                          THEN SubSeq(all, 1, st.limit) ELSE all,
               insertId |-> 0 ]

\* SELECT COUNT(*) as count FROM information_schema.tables WHERE ... table_name = ?
ExecExists(d, st) ==
  [ db |-> d, ok |-> TRUE,
    rows |-> <<[count |-> Num(IF st.params[1][2] \in DOMAIN d THEN 1 ELSE 0)]>>,
    insertId |-> 0 ]

RECURSIVE Flatten(_)
\* the concatenation of a sequence of sequences
Flatten(qs) == IF qs = <<>> THEN <<>> ELSE Head(qs) \o Flatten(Tail(qs))

\* the place of a value in ORDER BY: NULL first, then numbers by value
\* (strings are not told apart: the callers order by numeric columns)
SortKey(v) == IF v = Nil THEN -1 ELSE IF v[1] = "num" THEN v[2] ELSE 0

RECURSIVE Insert(_, _, _, _)
\* row put into the sorted rows, behind the rows that do not sort after it
Insert(row, sorted, field, direction) ==
  IF sorted = <<>> THEN <<row>>
  ELSE IF (IF direction = "DESC"
             THEN SortKey(Head(sorted)[field]) < SortKey(row[field])
             ELSE SortKey(row[field]) < SortKey(Head(sorted)[field]))
    THEN <<row>> \o sorted
    ELSE <<Head(sorted)>> \o Insert(row, Tail(sorted), field, direction)

RECURSIVE SortBy(_, _, _)
\* ORDER BY field direction
SortBy(rows, field, direction) ==
  IF rows = <<>> THEN <<>>
  ELSE Insert(rows[Len(rows)], SortBy(SubSeq(rows, 1, Len(rows) - 1), field, direction),
              field, direction)

\* one row of the joined table next to a row of the FROM table: one object,
\* a column name that both tables have holding the joined table's value
Beside(r, r2) == [c \in DOMAIN r \cup DOMAIN r2 |-> IF c \in DOMAIN r2 THEN r2[c] ELSE r[c]]

\* what a join gives for one row of the FROM table, hits being the rows of
\* the joined table that satisfy the ON condition
JoinedTo(row, hits, other, join) ==
  IF hits # <<>> THEN [k \in 1..Len(hits) |-> Beside(row, hits[k])]
  ELSE IF join.type = "LEFT JOIN" THEN << Beside(row, [c \in Range(other.cols) |-> Nil]) >>
  ELSE <<>>

\* FROM table JOIN other ON j.condition = table.condition
JoinRows(rows, other, join) ==
  Flatten([i \in 1..Len(rows) |->
             JoinedTo(rows[i],
                      Filter(other.rows, [k \in 1..Len(other.rows) |->
                               SqlEq(other.rows[k][join.condition], rows[i][join.condition])]),
                      other, join)])

\* SELECT fields: the columns of the result rows
Projected(st, rows) ==
  IF st.select = "*" THEN rows
  ELSE [i \in 1..Len(rows) |-> [c \in {st.select} |-> rows[i][c]]]

\* LIMIT n
Limited(st, rows) ==
  Projected(st, IF st.limit > 0 /\ Len(rows) > st.limit THEN SubSeq(rows, 1, st.limit) ELSE rows)

\* ORDER BY f d
Ordered(st, rows) ==
  Limited(st, IF st.orderBy # <<>> THEN SortBy(rows, st.orderBy[1], st.orderBy[2]) ELSE rows)

\* WHERE c1 = ? AND c2 = ? ...
Selected(st, rows) ==
  Ordered(st, Filter(rows, [i \in 1..Len(rows) |->
                       \A j \in 1..Len(st.wheres) : SqlEq(rows[i][st.wheres[j]], st.params[j])]))

\* the columns the statement names without their table
NamedColumns(st) ==
  Range(st.wheres) \cup (IF st.select # "*" THEN {st.select} ELSE {})
                   \cup (IF st.orderBy # <<>> THEN {st.orderBy[1]} ELSE {})

\* the server rejects the statement over the FROM table's columns cols and
\* the joined table's columns joined: the ON column must be in both tables,
\* and a column named without its table in exactly one
Rejected(st, cols, joined) ==
  \/ st.joins # <<>> /\ st.joins[1].condition \notin cols \cap joined
  \/ NamedColumns(st) \notin SUBSET ((cols \cup joined) \ (cols \cap joined))
  \/ Len(st.params) # Len(st.wheres)

\* SELECT fields FROM table [joins] WHERE c1 = ? AND c2 = ? ... ORDER BY f d
\* LIMIT n  (kind "QUERY": the statement QueryBuilder.buildQuery writes).
\* Every join goes under the alias j, so two of them clash.
ExecQuery(d, st) ==
  IF Len(st.joins) > 1 THEN Failed(d)
  ELSE IF st.joins = <<>>
    THEN IF Rejected(st, Range(d[st.table].cols), {}) THEN Failed(d)
         ELSE [db |-> d, ok |-> TRUE, rows |-> Selected(st, d[st.table].rows), insertId |-> 0]
  ELSE IF st.joins[1].table \notin DOMAIN d THEN Failed(d)
  ELSE IF Rejected(st, Range(d[st.table].cols), Range(d[st.joins[1].table].cols))
    THEN Failed(d)
  ELSE [db |-> d, ok |-> TRUE,
        rows |-> Selected(st, JoinRows(d[st.table].rows, d[st.joins[1].table], st.joins[1])),
        insertId |-> 0]

\* SELECT t.* FROM table t INNER JOIN joinTable jt
\*   ON t.targetIdColumn = jt.inverseJoinColumn WHERE jt.joinColumn = ?
\* (kind "JOIN"): each target row once per bridge row that links it
ExecJoin(d, st) ==
  IF \/ st.joinTable \notin DOMAIN d
     \/ st.targetIdColumn \notin Range(d[st.table].cols)
     \/ {st.joinColumn, st.inverseJoinColumn} \notin SUBSET Range(d[st.joinTable].cols)
     \/ Len(st.params) # 1
    THEN Failed(d)
    ELSE [ db |-> d, ok |-> TRUE,
           rows |-> Flatten([i \in 1..Len(d[st.table].rows) |->
                      Filter([j \in 1..Len(d[st.joinTable].rows) |-> d[st.table].rows[i]],
                             [j \in 1..Len(d[st.joinTable].rows) |->
                                /\ SqlEq(d[st.joinTable].rows[j][st.joinColumn], st.params[1])
                                /\ SqlEq(d[st.table].rows[i][st.targetIdColumn],
                                         d[st.joinTable].rows[j][st.inverseJoinColumn])])]),
           insertId |-> 0 ]

\* pool.execute(sql, params): the outcome [db, ok, rows, insertId];
\* ok = FALSE is the rejected promise (unknown table or column, duplicate
\* key, malformed statement, a parameter that is no scalar)
Execute(d, st) ==
  IF \E i \in 1..Len(st.params) : ~Scalar(st.params[i]) THEN Failed(d)
  ELSE IF st.kind = "CREATE" THEN ExecCreate(d, st)
  ELSE IF st.kind = "EXISTS" THEN ExecExists(d, st)
  ELSE IF st.table \notin DOMAIN d THEN Failed(d)
  ELSE CASE st.kind = "INSERT" -> ExecInsert(d, st)
         [] st.kind = "UPDATE" -> ExecUpdate(d, st)
         [] st.kind = "DELETE" -> ExecDelete(d, st)
         [] st.kind = "SELECT" -> ExecSelect(d, st)
         [] st.kind = "QUERY"  -> ExecQuery(d, st)
         [] st.kind = "JOIN"   -> ExecJoin(d, st)

----
(***************************************************************************)
(* SchemaGenerator (core/database/SchemaGenerator.ts)                      *)
(***************************************************************************)

\* the statement of tableExists(tableName)
ExistsStmt(tableName) ==
  [NoStmt EXCEPT !.kind = "EXISTS", !.table = "information_schema.tables",
                 !.where = "table_name", !.params = <<Str(tableName)>>]

\* tableExists(tableName), r being what pool.execute gave: false when it failed
TableExists(r) == r.ok /\ r.rows[1].count[2] > 0

\* the CREATE TABLE statement of class c
CreateStmt(c) ==
  LET m == Meta(c)
  IN  [NoStmt EXCEPT !.kind = "CREATE", !.table = TableName(c),
                     !.cols = [i \in 1..Len(m.columns) |-> ColumnName(c, m.columns[i].prop)],
                     !.key = IF m.id # "" /\ HasKey(m.columns, m.id) /\ m.generated = "AUTO"
                               THEN ColumnName(c, m.id) ELSE ""]

\* createTable past tableExists, r being what the CREATE gave: [err, stmts, db]
Created(d, c, r) ==
  IF ~r.ok THEN [err |-> "db", stmts |-> <<ExistsStmt(TableName(c)), CreateStmt(c)>>, db |-> d]
  ELSE [err |-> "", stmts |-> <<ExistsStmt(TableName(c)), CreateStmt(c)>>, db |-> r.db]

\* createTable past its entity check: [err, stmts, db]
CreateEntityTable(d, c) ==
  IF TableExists(Execute(d, ExistsStmt(TableName(c))))
    THEN [err |-> "", stmts |-> <<ExistsStmt(TableName(c))>>, db |-> d]
    ELSE Created(d, c, Execute(d, CreateStmt(c)))

\* faulty variant: a class that is not an entity is rejected
CreateTableRejecting(d, c) ==
  IF Meta(c).entity = ""
    THEN [err |-> "not an entity", stmts |-> <<>>, db |-> d]
    ELSE CreateEntityTable(d, c)

\* createTable(entityClass): a class that is not an entity is skipped
CreateTable(d, c) ==
  IF Meta(c).entity = ""
    THEN [err |-> "", stmts |-> <<>>, db |-> d]
    ELSE CreateEntityTable(d, c)

RECURSIVE GenerateSchema(_, _)
\* generateSchema(entities): createTable for each, stopping at the first throw
GenerateSchema(acc, entities) ==
  IF entities = <<>> \/ acc.err # "" THEN acc
  ELSE LET r == CreateTable(acc.db, Head(entities))
       IN  GenerateSchema([err |-> r.err, stmts |-> acc.stmts \o r.stmts, db |-> r.db],
                          Tail(entities))

----
(***************************************************************************)
(* Row-to-object mapping (EntityManager.mapRowToEntity and its copy in     *)
(* RelationshipManager)                                                    *)
(***************************************************************************)

\* faulty variant: the raw column name is taken as the property name
PropertyOfRaw(c, colName) == colName

\* reverseColumnMap[colName] || colName: the last property declared for the
\* column, or the raw column name
PropertyOf(c, colName) ==
  LET cm   == Meta(c).columns
      hits == {i \in 1..Len(cm) : ColumnName(c, cm[i].prop) = colName}
  IN  IF hits = {} THEN colName
      ELSE cm[CHOOSE i \in hits : \A j \in hits : j <= i].prop

RECURSIVE CopyRow(_, _, _, _)
\* Object.keys(row).forEach(colName => entity[propName] = row[colName])
CopyRow(c, row, cols, props) ==
  IF cols = <<>> THEN props
  ELSE CopyRow(c, row, Tail(cols), Put(props, PropertyOf(c, Head(cols)), row[Head(cols)]))

\* mapRowToEntity(entityClass, row, columnMetadata): a fresh instance
MapRowToEntity(c, row, cols) == Obj(c, CopyRow(c, row, cols, NoProps))

MapRows(d, c, table, rows) ==
  [i \in 1..Len(rows) |-> MapRowToEntity(c, rows[i], d[table].cols)]

----
(***************************************************************************)
(* RelationshipManager (core/orm/RelationshipManager.ts).  Each loader     *)
(* gives [err, stmts, ret]: the error thrown ("" for none), the statements *)
(* it sent, the value it resolved to.                                      *)
(***************************************************************************)

\* faulty variant: the conventional name, whatever is declared
ForeignKeyColumnByConvention(c, propertyKey, relationMetadata) == propertyKey \o "_id"

\* the foreign-key property loadManyToOne reads
ForeignKeyColumn(c, propertyKey, relationMetadata) ==
  LET jc == Meta(c).joinColumn
  IN  IF HasKey(jc, propertyKey) THEN Lookup(jc, propertyKey).name
      ELSE IF relationMetadata.joinColumn = "string" THEN relationMetadata.joinColumnName
      ELSE IF relationMetadata.joinColumn = "object"
        THEN OrName(relationMetadata.joinColumnName, propertyKey \o "_id")
      ELSE propertyKey \o "_id"

\* joinColumn?.referencedColumnName || 'id'
ReferencedColumn(c, propertyKey) ==
  LET jc == Meta(c).joinColumn
  IN  IF HasKey(jc, propertyKey)
        THEN OrName(Lookup(jc, propertyKey).referencedColumnName, "id")
        ELSE "id"

\* faulty variant: only the foreign-key property is read
LoadManyToOneByKeyOnly(d, e, propertyKey, relationMetadata, target) ==
  LET fk    == ForeignKeyColumn(e.cls, propertyKey, relationMetadata)
      value == Get(e.props, fk)
      st    == [NoStmt EXCEPT !.kind = "SELECT", !.table = TableName(target),
                              !.where = ReferencedColumn(e.cls, propertyKey),
                              !.params = <<value>>, !.limit = 1]
      r     == Execute(d, st)
  IN  IF ~Truthy(value) THEN [err |-> "", stmts |-> <<>>, ret |-> Nil]
      ELSE IF ~r.ok THEN [err |-> "db", stmts |-> <<st>>, ret |-> Nil]
      ELSE [err |-> "", stmts |-> <<st>>,
            ret |-> IF r.rows = <<>> THEN Nil
                    ELSE MapRowToEntity(target, r.rows[1], d[st.table].cols)]

\* loadManyToOne(entity, propertyKey, relationMetadata, targetEntityClass)
LoadManyToOne(d, e, propertyKey, relationMetadata, target) ==
  LET fk    == ForeignKeyColumn(e.cls, propertyKey, relationMetadata)
      value == OrElse(Get(e.props, fk), Get(e.props, propertyKey))
      st    == [NoStmt EXCEPT !.kind = "SELECT", !.table = TableName(target),
                              !.where = ReferencedColumn(e.cls, propertyKey),
                              !.params = <<value>>, !.limit = 1]
      r     == Execute(d, st)
  IN  IF ~Truthy(value) THEN [err |-> "", stmts |-> <<>>, ret |-> Nil]
      ELSE IF ~r.ok THEN [err |-> "db", stmts |-> <<st>>, ret |-> Nil]
      ELSE [err |-> "", stmts |-> <<st>>,
            ret |-> IF r.rows = <<>> THEN Nil
                    ELSE MapRowToEntity(target, r.rows[1], d[st.table].cols)]

\* faulty variant: an owner without an identifier value is a configuration error
OneToManyByRequiringId(d, e, mappedBy, target) ==
  LET idMeta   == Meta(e.cls).id
      idValue  == OrElse(IF idMeta # "" THEN Get(e.props, idMeta) ELSE Nil, Get(e.props, "id"))
      fk       == IF HasKey(Meta(target).columns, mappedBy)
                    THEN ColumnName(target, mappedBy)
                    ELSE LowerCase(e.cls) \o "_id"
      st       == [NoStmt EXCEPT !.kind = "SELECT", !.table = TableName(target),
                                 !.where = fk, !.params = <<idValue>>]
      r        == Execute(d, st)
  IN  IF ~Truthy(idValue) THEN [err |-> "no ID value", stmts |-> <<>>, ret |-> Nil]
      ELSE IF ~r.ok THEN [err |-> "db", stmts |-> <<st>>, ret |-> Nil]
      ELSE [err |-> "", stmts |-> <<st>>, ret |-> List(MapRows(d, target, st.table, r.rows))]

\* faulty variant: without a target column for mappedBy, mappedBy itself
\* is taken as the foreign-key column
OneToManyByMappedByColumn(d, e, mappedBy, target) ==
  LET idMeta   == Meta(e.cls).id
      idValue  == OrElse(IF idMeta # "" THEN Get(e.props, idMeta) ELSE Nil, Get(e.props, "id"))
      fk       == IF HasKey(Meta(target).columns, mappedBy)
                    THEN ColumnName(target, mappedBy)
                    ELSE mappedBy
      st       == [NoStmt EXCEPT !.kind = "SELECT", !.table = TableName(target),
                                 !.where = fk, !.params = <<idValue>>]
      r        == Execute(d, st)
  IN  IF ~Truthy(idValue) THEN [err |-> "", stmts |-> <<>>, ret |-> List(<<>>)]
      ELSE IF ~r.ok THEN [err |-> "db", stmts |-> <<st>>, ret |-> Nil]
      ELSE [err |-> "", stmts |-> <<st>>, ret |-> List(MapRows(d, target, st.table, r.rows))]

\* loadOneToMany once mappedBy is settled
OneToManyBy(d, e, mappedBy, target) ==
  LET idMeta   == Meta(e.cls).id
      idValue  == OrElse(IF idMeta # "" THEN Get(e.props, idMeta) ELSE Nil, Get(e.props, "id"))
      \* targetColumnMeta[mappedBy]?.name || `${owner}_id`
      fk       == IF HasKey(Meta(target).columns, mappedBy)
                    THEN ColumnName(target, mappedBy)
                    ELSE LowerCase(e.cls) \o "_id"
      st       == [NoStmt EXCEPT !.kind = "SELECT", !.table = TableName(target),
                                 !.where = fk, !.params = <<idValue>>]
      r        == Execute(d, st)
  IN  IF ~Truthy(idValue) THEN [err |-> "", stmts |-> <<>>, ret |-> List(<<>>)]
      ELSE IF ~r.ok THEN [err |-> "db", stmts |-> <<st>>, ret |-> Nil]
      ELSE [err |-> "", stmts |-> <<st>>, ret |-> List(MapRows(d, target, st.table, r.rows))]

\* faulty variant: a descriptor without mappedBy is a configuration error
LoadOneToManyRequiringMappedBy(d, e, propertyKey, relationMetadata, target) ==
  IF relationMetadata.mappedBy = ""
    THEN [err |-> "no mappedBy", stmts |-> <<>>, ret |-> Nil]
    ELSE OneToManyBy(d, e, relationMetadata.mappedBy, target)

\* mappedBy = relationMetadata.mappedBy || propertyKey
LoadOneToMany(d, e, propertyKey, relationMetadata, target) ==
  OneToManyBy(d, e, OrName(relationMetadata.mappedBy, propertyKey), target)

\* the bridge table loadManyToMany joins
JoinTableName(c, propertyKey, relationMetadata) ==
  LET jt == Meta(c).joinTable
  IN  IF HasKey(jt, propertyKey)
        THEN OrName(Lookup(jt, propertyKey).name, LowerCase(c) \o "_" \o propertyKey)
      ELSE IF relationMetadata.joinTable = "string" THEN relationMetadata.joinTableName
      ELSE IF relationMetadata.joinTable = "object"
        THEN OrName(relationMetadata.joinTableName, LowerCase(c) \o "_" \o propertyKey)
      ELSE LowerCase(c) \o "_" \o propertyKey

\* the bridge column that holds the owner's identifier
OwningJoinColumn(c, propertyKey, relationMetadata) ==
  LET jt == Meta(c).joinTable
  IN  IF HasKey(jt, propertyKey)
        THEN OrName(FirstName(Lookup(jt, propertyKey).joinColumns), LowerCase(c) \o "_id")
      ELSE IF relationMetadata.joinTable = "object"
        THEN OrName(FirstName(relationMetadata.joinColumns), LowerCase(c) \o "_id")
      ELSE LowerCase(c) \o "_id"

\* the bridge column that holds the target's identifier
InverseJoinColumn(c, propertyKey, relationMetadata, target) ==
  LET jt == Meta(c).joinTable
  IN  IF HasKey(jt, propertyKey)
        THEN OrName(FirstName(Lookup(jt, propertyKey).inverseJoinColumns),
                    LowerCase(target) \o "_id")
      ELSE IF relationMetadata.joinTable = "object"
        THEN OrName(FirstName(relationMetadata.inverseJoinColumns), LowerCase(target) \o "_id")
      ELSE LowerCase(target) \o "_id"

\* loadManyToMany(entity, propertyKey, relationMetadata, targetEntityClass)
LoadManyToMany(d, e, propertyKey, relationMetadata, target) ==
  LET idMeta   == Meta(e.cls).id
      idValue  == OrElse(IF idMeta # "" THEN Get(e.props, idMeta) ELSE Nil, Get(e.props, "id"))
      st       == [NoStmt EXCEPT
                     !.kind = "JOIN", !.table = TableName(target),
                     !.joinTable = JoinTableName(e.cls, propertyKey, relationMetadata),
                     !.joinColumn = OwningJoinColumn(e.cls, propertyKey, relationMetadata),
                     !.inverseJoinColumn =
                        InverseJoinColumn(e.cls, propertyKey, relationMetadata, target),
                     !.targetIdColumn = IdColumn(target, "id"),
                     !.params = <<idValue>>]
      r        == Execute(d, st)
  IN  IF ~Truthy(idValue) THEN [err |-> "", stmts |-> <<>>, ret |-> List(<<>>)]
      ELSE IF ~r.ok THEN [err |-> "db", stmts |-> <<st>>, ret |-> Nil]
      ELSE [err |-> "", stmts |-> <<st>>, ret |-> List(MapRows(d, target, st.table, r.rows))]

LoadOneToOne(d, e, propertyKey, relationMetadata, target) ==
  IF relationMetadata.mappedBy # ""
    THEN LET r == LoadOneToMany(d, e, propertyKey, relationMetadata, target)
         IN  IF r.err # "" THEN r
             ELSE [r EXCEPT !.ret = IF Len(r.ret[2]) > 0 THEN r.ret[2][1] ELSE Nil]
    ELSE LoadManyToOne(d, e, propertyKey, relationMetadata, target)

----
(***************************************************************************)
(* EntityManager (core/orm/EntityManager.ts).  Each operation gives        *)
(* [err, stmts, db, props, ret]: the error thrown ("" for none), the       *)
(* statements sent, the database afterwards, the properties of the passed  *)
(* instance afterwards, and the value returned.  ret "self" is the passed  *)
(* instance itself (the same reference).                                   *)
(***************************************************************************)

Self == <<"self", 0>>
Void == <<"void", 0>>

Thrown(error, d, props, stmts) ==
  [err |-> error, stmts |-> stmts, db |-> d, props |-> props, ret |-> Void]

\* faulty variant: the strategy is not consulted
UpdatePathIgnoringStrategy(idValue, strategy) == Truthy(idValue)

\* idValue && generatedValue?.strategy !== 'AUTO'
UpdatePath(idValue, strategy) == Truthy(idValue) /\ strategy # "AUTO"

\* faulty variant: every declared strategy back-fills
BackFillsAnyStrategy(strategy, idProperty) == strategy # "" /\ idProperty # ""

\* generatedValue?.strategy === 'AUTO' && idProperty
BackFills(strategy, idProperty) == strategy = "AUTO" /\ idProperty # ""

\* faulty variant: the last declared column is left out of the SET clause
UpdateColumnsButLast(columns, idProperty) ==
  Filter(columns, [i \in 1..Len(columns) |-> columns[i] # idProperty /\ i < Len(columns)])

\* the columns an UPDATE sets: columns.filter(col => col !== idProperty)
UpdateColumns(columns, idProperty) ==
  Filter(columns, [i \in 1..Len(columns) |-> columns[i] # idProperty])

PersistUpdate(d, e, columns, idValue) ==
  LET c    == e.cls
      set  == UpdateColumns(columns, Meta(c).id)
      st   == [NoStmt EXCEPT !.kind = "UPDATE", !.table = TableName(c),
                             !.cols = [i \in 1..Len(set) |-> ColumnName(c, set[i])],
                             !.where = IdColumn(c, ""),
                             !.params = [i \in 1..Len(set) |-> Get(e.props, set[i])]
                                          \o <<idValue>>]
      r    == Execute(d, st)
  IN  IF ~r.ok THEN Thrown("db", d, e.props, <<st>>)
      ELSE [err |-> "", stmts |-> <<st>>, db |-> r.db, props |-> e.props, ret |-> Self]

PersistInsert(d, e, columns) ==
  LET c    == e.cls
      m    == Meta(c)
      st   == [NoStmt EXCEPT !.kind = "INSERT", !.table = TableName(c),
                             !.cols = [i \in 1..Len(columns) |-> ColumnName(c, columns[i])],
                             !.params = [i \in 1..Len(columns) |-> Get(e.props, columns[i])],
                             !.lastId = BackFills(m.generated, m.id)]
      r    == Execute(d, st)
  IN  IF ~r.ok THEN Thrown("db", d, e.props, <<st>>)
      ELSE [err |-> "", stmts |-> <<st>>, db |-> r.db,
            props |-> IF BackFills(m.generated, m.id)
                        THEN Put(e.props, m.id, Num(r.insertId)) ELSE e.props,
            ret |-> Self]

\* faulty variant: no entity check
PersistUnchecked(d, e) ==
  LET m       == Meta(e.cls)
      columns == Keys(m.columns)
      idValue == IF m.id # "" THEN Get(e.props, m.id) ELSE Nil
  IN  IF UpdatePath(idValue, m.generated) THEN PersistUpdate(d, e, columns, idValue)
      ELSE PersistInsert(d, e, columns)

\* faulty variant: a class without an identifier property is rejected
PersistRequiringId(d, e) ==
  LET m       == Meta(e.cls)
      columns == Keys(m.columns)
      idValue == IF m.id # "" THEN Get(e.props, m.id) ELSE Nil
  IN  IF m.entity = "" THEN Thrown("not an entity", d, e.props, <<>>)
      ELSE IF m.id = "" THEN Thrown("no ID property", d, e.props, <<>>)
      ELSE IF UpdatePath(idValue, m.generated) THEN PersistUpdate(d, e, columns, idValue)
      ELSE PersistInsert(d, e, columns)

\* persist(entity)
Persist(d, e) ==
  LET m       == Meta(e.cls)
      columns == Keys(m.columns)
      idValue == IF m.id # "" THEN Get(e.props, m.id) ELSE Nil
  IN  IF m.entity = "" THEN Thrown("not an entity", d, e.props, <<>>)
      ELSE IF UpdatePath(idValue, m.generated) THEN PersistUpdate(d, e, columns, idValue)
      ELSE PersistInsert(d, e, columns)

\* find(entityClass, id)
Find(d, c, id) ==
  LET st == [NoStmt EXCEPT !.kind = "SELECT", !.table = TableName(c),
                           !.where = IdColumn(c, "id"), !.params = <<id>>, !.limit = 1]
      r  == Execute(d, st)
  IN  IF Meta(c).entity = "" THEN Thrown("not an entity", d, NoProps, <<>>)
      ELSE IF ~r.ok THEN Thrown("db", d, NoProps, <<st>>)
      ELSE [err |-> "", stmts |-> <<st>>, db |-> d, props |-> NoProps,
            ret |-> IF r.rows = <<>> THEN Nil
                    ELSE MapRowToEntity(c, r.rows[1], d[st.table].cols)]

\* meta.fetch === 'EAGER' && meta.targetEntity
EagerlyLoaded(meta) == meta.fetch = "EAGER" /\ meta.targetEntity # ""

\* the loader call of one loop iteration; targetEntityClass = meta.targetEntity()
LoadRelated(d, e, meta, kind) ==
  IF kind = "manyToOne"
    THEN LoadManyToOne(d, e, meta.prop, meta, meta.targetEntity)
    ELSE LoadOneToOne(d, e, meta.prop, meta, meta.targetEntity)

\* (entity as any)[propertyKey] = related, r being what the loader gave
Related(acc, propertyKey, r) ==
  [err |-> r.err, stmts |-> acc.stmts \o r.stmts,
   props |-> IF r.err = "" THEN Put(acc.props, propertyKey, r.ret) ELSE acc.props]

RECURSIVE LoadEach(_, _, _, _, _)
\* one for-loop of loadRelationships over the relations rels of one kind;
\* acc = [err, stmts, props] of the entity being filled
LoadEach(d, c, acc, rels, kind) ==
  IF rels = <<>> \/ acc.err # "" THEN acc
  ELSE LoadEach(d, c,
                IF EagerlyLoaded(Head(rels))
                  THEN Related(acc, Head(rels).prop,
                               LoadRelated(d, [cls |-> c, props |-> acc.props], Head(rels), kind))
                  ELSE acc,
                Tail(rels), kind)

\* loadRelationships(entity): [err, stmts, props]
LoadRelationships(d, e) ==
  LET a == LoadEach(d, e.cls, [err |-> "", stmts |-> <<>>, props |-> e.props],
                    Meta(e.cls).manyToOne, "manyToOne")
  IN  LoadEach(d, e.cls, a, Meta(e.cls).oneToOne, "oneToOne")

\* one entity of the findAll loop done, r being what loadRelationships gave
Done(acc, c, r) ==
  [err |-> r.err, stmts |-> acc.stmts \o r.stmts, done |-> Append(acc.done, Obj(c, r.props))]

RECURSIVE LoadAll(_, _, _)
\* for (const entity of entities) await this.loadRelationships(entity)
\* acc = [err, stmts, done]
LoadAll(d, acc, entities) ==
  IF entities = <<>> \/ acc.err # "" THEN acc
  ELSE LoadAll(d, Done(acc, Head(entities)[2].cls, LoadRelationships(d, Head(entities)[2])),
               Tail(entities))

\* return entities, l being what the loop over the mapped rows gave
FindAllLoaded(d, l) ==
  IF l.err # "" THEN Thrown(l.err, d, NoProps, l.stmts)
  ELSE [err |-> "", stmts |-> l.stmts, db |-> d, props |-> NoProps, ret |-> List(l.done)]

\* findAll past the SELECT, r being what pool.execute gave
FindAllRows(d, c, st, r) ==
  IF ~r.ok THEN Thrown("db", d, NoProps, <<st>>)
  ELSE FindAllLoaded(d, LoadAll(d, [err |-> "", stmts |-> <<st>>, done |-> <<>>],
                                MapRows(d, c, st.table, r.rows)))

\* the statement of findAll
FindAllStmt(c) == [NoStmt EXCEPT !.kind = "SELECT", !.table = TableName(c)]

\* findAll(entityClass)
FindAll(d, c) ==
  IF Meta(c).entity = "" THEN Thrown("not an entity", d, NoProps, <<>>)
  ELSE FindAllRows(d, c, FindAllStmt(c), Execute(d, FindAllStmt(c)))

\* faulty variant: the identifier value is not checked
RemoveWithoutValueCheck(d, e) ==
  LET m       == Meta(e.cls)
      idValue == Get(e.props, m.id)
      st      == [NoStmt EXCEPT !.kind = "DELETE", !.table = TableName(e.cls),
                                !.where = IdColumn(e.cls, ""), !.params = <<idValue>>]
      r       == Execute(d, st)
  IN  IF m.entity = "" THEN Thrown("not an entity", d, e.props, <<>>)
      ELSE IF m.id = "" THEN Thrown("no ID property", d, e.props, <<>>)
      ELSE IF ~r.ok THEN Thrown("db", d, e.props, <<st>>)
      ELSE [err |-> "", stmts |-> <<st>>, db |-> r.db, props |-> e.props, ret |-> Void]

\* remove(entity)
Remove(d, e) ==
  LET m       == Meta(e.cls)
      idValue == Get(e.props, m.id)
      st      == [NoStmt EXCEPT !.kind = "DELETE", !.table = TableName(e.cls),
                                !.where = IdColumn(e.cls, ""), !.params = <<idValue>>]
      r       == Execute(d, st)
  IN  IF m.entity = "" THEN Thrown("not an entity", d, e.props, <<>>)
      ELSE IF m.id = "" THEN Thrown("no ID property", d, e.props, <<>>)
      ELSE IF ~Truthy(idValue) THEN Thrown("no ID value", d, e.props, <<>>)
      ELSE IF ~r.ok THEN Thrown("db", d, e.props, <<st>>)
      ELSE [err |-> "", stmts |-> <<st>>, db |-> r.db, props |-> e.props, ret |-> Void]

----
(***************************************************************************)
(* QueryBuilder (core/orm/EntityManager.ts).  A condition is written       *)
(* "c1 = ? AND c2 = ? ..." and is kept as the sequence of its columns; a   *)
(* join is written (table + ' j', 'j.c = <from>.c') and is kept as the     *)
(* table and the column c.                                                 *)
(***************************************************************************)

\* new QueryBuilder(pool, entityClass)
QueryBuilder(c) ==
  [ entityClass |-> c, selectClause |-> "*", fromClause |-> TableName(c),
    whereClauses |-> <<>>, whereParams |-> <<>>, orderByClause |-> <<>>,
    limitClause |-> 0, joinClauses |-> <<>> ]

NoQueryBuilder ==
  [ entityClass |-> "", selectClause |-> "*", fromClause |-> "",
    whereClauses |-> <<>>, whereParams |-> <<>>, orderByClause |-> <<>>,
    limitClause |-> 0, joinClauses |-> <<>> ]

\* select(fields)
Select(q, fields) == [q EXCEPT !.selectClause = fields]

\* where(condition, ...params)
Where(q, condition, params) ==
  [q EXCEPT !.whereClauses = Append(@, condition), !.whereParams = @ \o params]

\* andWhere(condition, ...params)
AndWhere(q, condition, params) == Where(q, condition, params)

\* orderBy(field, direction)
OrderBy(q, field, direction) == [q EXCEPT !.orderByClause = <<field, direction>>]

\* faulty variant: the count is bound as a parameter of the statement
LimitAsParameter(q, count) ==
  [q EXCEPT !.limitClause = count, !.whereParams = Append(@, Num(count))]

\* limit(count)
Limit(q, count) == [q EXCEPT !.limitClause = count]

\* join(table, condition)
Join(q, table, condition) ==
  [q EXCEPT !.joinClauses =
     Append(@, [type |-> "JOIN", table |-> table, condition |-> condition])]

\* leftJoin(table, condition)
LeftJoin(q, table, condition) ==
  [q EXCEPT !.joinClauses =
     Append(@, [type |-> "LEFT JOIN", table |-> table, condition |-> condition])]

\* buildQuery(): whereClauses.join(' AND ') reads as one list of conditions
BuildQuery(q) ==
  [NoStmt EXCEPT !.kind = "QUERY", !.select = q.selectClause, !.table = q.fromClause,
                 !.joins = q.joinClauses, !.wheres = Flatten(q.whereClauses),
                 !.orderBy = q.orderByClause, !.limit = q.limitClause]

\* faulty variant: the conditions are written before the joins
BuildQueryTextWhereFirst(q) ==
  <<<<"SELECT", q.selectClause>>, <<"FROM", q.fromClause>>>>
  \o (IF Len(q.whereClauses) > 0 THEN <<<<"WHERE", Flatten(q.whereClauses)>>>> ELSE <<>>)
  \o [i \in 1..Len(q.joinClauses) |->
        <<q.joinClauses[i].type, q.joinClauses[i].table, q.joinClauses[i].condition>>]
  \o (IF q.orderByClause # <<>> THEN <<<<"ORDER BY">> \o q.orderByClause>> ELSE <<>>)
  \o (IF q.limitClause # 0 THEN <<<<"LIMIT", q.limitClause>>>> ELSE <<>>)

\* buildQuery(): the text of the statement, as the clauses it concatenates
BuildQueryText(q) ==
  <<<<"SELECT", q.selectClause>>, <<"FROM", q.fromClause>>>>
  \o [i \in 1..Len(q.joinClauses) |->
        <<q.joinClauses[i].type, q.joinClauses[i].table, q.joinClauses[i].condition>>]
  \o (IF Len(q.whereClauses) > 0 THEN <<<<"WHERE", Flatten(q.whereClauses)>>>> ELSE <<>>)
  \o (IF q.orderByClause # <<>> THEN <<<<"ORDER BY">> \o q.orderByClause>> ELSE <<>>)
  \o (IF q.limitClause # 0 THEN <<<<"LIMIT", q.limitClause>>>> ELSE <<>>)

\* a row as the driver returns it, not mapped to any class
Row(r) == <<"row", r>>

\* getMany past the query, r being what pool.execute gave
GetManyRows(d, st, r) ==
  IF ~r.ok THEN Thrown("db", d, NoProps, <<st>>)
  ELSE [err |-> "", stmts |-> <<st>>, db |-> d, props |-> NoProps,
        ret |-> List([i \in 1..Len(r.rows) |-> Row(r.rows[i])])]

\* the statement and parameters getMany hands to pool.execute
GetManyStmt(q) == [BuildQuery(q) EXCEPT !.params = q.whereParams]

\* getMany()
GetMany(d, q) == GetManyRows(d, GetManyStmt(q), Execute(d, GetManyStmt(q)))

\* results.length > 0 ? results[0] : null
FirstOf(r) ==
  IF r.err # "" THEN r
  ELSE [r EXCEPT !.ret = IF Len(r.ret[2]) > 0 THEN r.ret[2][1] ELSE Nil]

\* getOne()
GetOne(d, q) == FirstOf(GetMany(d, q))

----
(***************************************************************************)
(* Container: the registry of bean types and singleton instances.          *)
(*                                                                         *)
(* The components of the application, as their decorators and the emitted  *)
(* design metadata describe them:                                          *)
(*   class BaseRepository                                                  *)
(*   @Repository('UserRepository') class UserRepository                    *)
(*       extends BaseRepository { constructor(pool: Pool) }                *)
(*   @Repository('UserRepository') class CachingUserRepository             *)
(*       extends UserRepository { constructor(pool: Pool) }                *)
(*   class Mailer                                                          *)
(*   @Component() class SmtpMailer extends Mailer                          *)
(*       { @Autowired() userRepository: UserRepository;                    *)
(*         @Value('mail.host') host }                                      *)
(*   @Service() class AuditService                                         *)
(*       { constructor(users: UserRepository, mailer: Mailer) }            *)
(* and the components of a second application:                             *)
(*   @Component() class Notifier                                           *)
(*   @Component() class EmailNotifier extends Notifier                     *)
(*   @Service() class OrderService                                         *)
(*       { constructor(billing: BillingService) }                          *)
(*   @Service() class BillingService                                       *)
(*       { constructor(orders: OrderService) }                             *)
(*   @Component() class Publisher { @Autowired() subscriber: Subscriber }  *)
(*   @Component() class Subscriber { @Autowired() publisher: Publisher }   *)
(***************************************************************************)

NoComponent ==
  [stereotype |-> "", name |-> "", super |-> "", params |-> <<>>, autowired |-> <<>>,
   values |-> <<>>]

Components ==
  [ BaseRepository |-> NoComponent,
    UserRepository |->
      [NoComponent EXCEPT !.stereotype = "Repository", !.name = "UserRepository",
                          !.super = "BaseRepository", !.params = <<"Pool">>],
    CachingUserRepository |->
      [NoComponent EXCEPT !.stereotype = "Repository", !.name = "UserRepository",
                          !.super = "UserRepository", !.params = <<"Pool">>],
    Mailer |-> NoComponent,
    SmtpMailer |->
      [NoComponent EXCEPT !.stereotype = "Component", !.super = "Mailer",
                          !.autowired = << [prop |-> "userRepository",
                                            type |-> "UserRepository",
                                            qualifier |-> ""] >>,
                          !.values = << [prop |-> "host", key |-> "mail.host"] >>],
    AuditService |->
      [NoComponent EXCEPT !.stereotype = "Service",
                          !.params = <<"UserRepository", "Mailer">>],
    Notifier |-> [NoComponent EXCEPT !.stereotype = "Component"],
    EmailNotifier |-> [NoComponent EXCEPT !.stereotype = "Component", !.super = "Notifier"],
    OrderService |->
      [NoComponent EXCEPT !.stereotype = "Service", !.params = <<"BillingService">>],
    BillingService |->
      [NoComponent EXCEPT !.stereotype = "Service", !.params = <<"OrderService">>],
    Publisher |->
      [NoComponent EXCEPT !.stereotype = "Component",
                          !.autowired = << [prop |-> "subscriber", type |-> "Subscriber",
                                            qualifier |-> ""] >>],
    Subscriber |->
      [NoComponent EXCEPT !.stereotype = "Component",
                          !.autowired = << [prop |-> "publisher", type |-> "Publisher",
                                            qualifier |-> ""] >>] ]

RECURSIVE ComponentName(_)
\* Reflect.getMetadata(COMPONENT_METADATA_KEY, target).name, "" when the class
\* and the classes it extends carry no stereotype: every stereotype decorator
\* stores { name: name || target.name } under the component key, Controller
\* { name: target.name }
ComponentName(target) ==
  IF target \notin DOMAIN Components THEN ""
  ELSE IF Components[target].stereotype = "Controller" THEN target
  ELSE IF Components[target].stereotype # "" THEN OrName(Components[target].name, target)
  ELSE ComponentName(Components[target].super)

\* the bean name registerBean derives for a class
BeanName(target) == OrName(ComponentName(target), target)

RECURSIVE Extends(_, _)
\* type.prototype instanceof base
Extends(type, base) ==
  /\ type \in DOMAIN Components
  /\ Components[type].super # ""
  /\ \/ Components[type].super = base
     \/ Extends(Components[type].super, base)

\* the pool handle of the database manager
Pool == <<"pool", 0>>

\* an object a constructor call made: made is its identity, the number of
\* the construction among all constructions of the run
Bean(c, made, args, fields) ==
  <<"bean", [cls |-> c, made |-> made, args |-> args, fields |-> fields]>>

\* new Container(): the three maps, the pool, and (no field of the class)
\* the number of objects constructed so far
NoContainer ==
  [beans |-> NoProps, beanTypes |-> <<>>, config |-> NoProps, pool |-> Nil, made |-> 0]

\* setPool(pool)
SetPool(ct, pool) == [ct EXCEPT !.pool = pool]

\* setConfig(key, value)
SetConfig(ct, key, value) == [ct EXCEPT !.config = Put(@, key, value)]

\* getConfig(key)
GetConfig(ct, key) == Get(ct.config, key)

\* beanTypes.set(name, type): a Map keeps the position of a key it holds
SetType(types, name, type) ==
  IF \E i \in 1..Len(types) : types[i].name = name
  THEN [i \in 1..Len(types) |->
          IF types[i].name = name THEN [name |-> name, type |-> type] ELSE types[i]]
  ELSE Append(types, [name |-> name, type |-> type])

\* faulty variant: a supplied instance does not displace a cached singleton
RegisterBeanKeepingSingleton(ct, target, instance) ==
  [ct EXCEPT !.beanTypes = SetType(@, BeanName(target), target),
             !.beans = IF instance # Nil /\ BeanName(target) \notin DOMAIN @
                         THEN Put(@, BeanName(target), instance) ELSE @]

\* registerBean(target, instance?)
RegisterBean(ct, target, instance) ==
  [ct EXCEPT !.beanTypes = SetType(@, BeanName(target), target),
             !.beans = IF instance # Nil THEN Put(@, BeanName(target), instance) ELSE @]

\* faulty variant: only the type itself matches
NameByExactType(types, t) ==
  LET hits == {i \in 1..Len(types) : types[i].type = t}
  IN  IF hits = {} THEN "" ELSE types[CHOOSE i \in hits : \A j \in hits : i <= j].name

\* the name of the first entry of beanTypes whose type is t or extends t,
\* "" for none
NameByType(types, t) ==
  LET hits == {i \in 1..Len(types) : types[i].type = t \/ Extends(types[i].type, t)}
  IN  IF hits = {} THEN "" ELSE types[CHOOSE i \in hits : \A j \in hits : i <= j].name

\* beanTypes.get(name), "" for undefined
TypeByName(types, name) ==
  LET hits == {i \in 1..Len(types) : types[i].name = name}
  IN  IF hits = {} THEN "" ELSE types[CHOOSE i \in hits : TRUE].type

\* throw new Error(`Bean ... not found`)
NotFound(ct) == [err |-> "not found", ret |-> Void, ct |-> ct]

\* faulty variant: a failed lookup of a constructor parameter is not caught
Rethrown(r) == r

\* try { return this.getBean(paramType) } catch { return undefined }
Caught(r) == IF r.err # "" THEN [r EXCEPT !.err = "", !.ret = Nil] ELSE r

\* beans.set(beanName, instance) behind a createInstance that returned
Cached(beanName, r) ==
  IF r.err # "" THEN r ELSE [r EXCEPT !.ct.beans = Put(@, beanName, r.ret)]

\* if (dependency) instance[propertyKey] = dependency, r the lookup's result
\* and inst the instance under construction
Injected(inst, prop, r) ==
  IF r.err # "" \/ r.ret = Nil THEN [r EXCEPT !.ret = inst]
  ELSE [r EXCEPT !.ret = Bean(inst[2].cls, inst[2].made, inst[2].args,
                               Put(inst[2].fields, prop, r.ret))]

RECURSIVE InjectValues(_, _)
\* Object.keys(valueMetadata).forEach(...): r holds the instance
InjectValues(values, r) ==
  IF values = <<>> \/ r.err # "" THEN r
  ELSE InjectValues(Tail(values),
         Injected(r.ret, Head(values).prop,
                  [r EXCEPT !.ret = GetConfig(r.ct, Head(values).key)]))

\* the getBean calls that fit on the call stack, one inside the other
MaxDepth == 3

\* RangeError: Maximum call stack size exceeded
Overflow(ct) == [err |-> "stack", ret |-> Void, ct |-> ct]

RECURSIVE GetBean(_, _, _, _)
RECURSIVE GetBeanNamed(_, _, _)
RECURSIVE CreateInstance(_, _, _)
RECURSIVE ConstructorArgs(_, _, _, _)
RECURSIVE Argument(_, _, _, _)
RECURSIVE InjectFields(_, _, _)

\* getBean(nameOrType) behind the resolution of the bean name
GetBeanNamed(ct, beanName, depth) ==
  IF beanName \in DOMAIN ct.beans THEN [err |-> "", ret |-> ct.beans[beanName], ct |-> ct]
  ELSE IF TypeByName(ct.beanTypes, beanName) = "" THEN NotFound(ct)
  ELSE Cached(beanName, CreateInstance(ct, TypeByName(ct.beanTypes, beanName), depth))

\* getBean(nameOrType), byType when nameOrType is a class, with depth
\* getBean calls around it on the call stack
GetBean(ct, nameOrType, byType, depth) ==
  IF depth > MaxDepth THEN Overflow(ct)
  ELSE IF byType /\ NameByType(ct.beanTypes, nameOrType) = "" THEN NotFound(ct)
  ELSE GetBeanNamed(ct, IF byType THEN NameByType(ct.beanTypes, nameOrType) ELSE nameOrType,
                    depth)

\* one element of paramTypes.map(...): r is the resolution of the parameter
Argument(r, params, args, depth) ==
  ConstructorArgs(r.ct, params, Append(args, r.ret), depth)

\* paramTypes.map(...) behind the parameters resolved to args
ConstructorArgs(ct, params, args, depth) ==
  IF Len(args) = Len(params)
  THEN [err |-> "", ret |-> args, ct |-> ct]
  ELSE IF params[Len(args) + 1] = "Pool" /\ ct.pool # Nil
  THEN Argument([err |-> "", ret |-> ct.pool, ct |-> ct], params, args, depth)
  ELSE Argument(Caught(GetBean(ct, params[Len(args) + 1], TRUE, depth + 1)),
                params, args, depth)

\* Object.keys(autowiredMetadata).forEach(...): r holds the instance
InjectFields(fields, r, depth) ==
  IF fields = <<>> \/ r.err # "" THEN r
  ELSE InjectFields(Tail(fields),
         Injected(r.ret, Head(fields).prop,
                  IF Head(fields).qualifier # ""
                    THEN GetBean(r.ct, Head(fields).qualifier, FALSE, depth + 1)
                  ELSE IF Head(fields).type # ""
                    THEN GetBean(r.ct, Head(fields).type, TRUE, depth + 1)
                  ELSE [r EXCEPT !.ret = Nil]),
         depth)

\* new target(...constructorArgs) on the resolved arguments a.ret
Construct(target, a) ==
  [a EXCEPT !.ct.made = @ + 1, !.ret = Bean(target, a.ct.made + 1, a.ret, NoProps)]

\* createInstance(target)
CreateInstance(ct, target, depth) ==
  InjectValues(Components[target].values,
    InjectFields(Components[target].autowired,
      Construct(target, ConstructorArgs(ct, Components[target].params, <<>>, depth)),
      depth))

\* faulty variant: the bean types outlive the clearing
ClearKeepingTypes(ct) == [ct EXCEPT !.beans = NoProps, !.config = NoProps]

\* clear()
Clear(ct) == [ct EXCEPT !.beans = NoProps, !.beanTypes = <<>>, !.config = NoProps]

----
(***************************************************************************)
(* The state machine.  One caller: it boots the application, holds one     *)
(* entity instance in a variable, and calls the EntityManager.             *)
(***************************************************************************)

VARIABLES
  entities, \* config.entities: the classes the application was configured with
  db,     \* the database behind the pool
  held,   \* the instance the caller holds: [cls, props, origin], cls "" for none
  op,     \* the last call: [name, cls, arg, before, rows, afterPersist]
  err,    \* the error the last call threw, "" for none
  ret,    \* the value the last call returned
  stmts,  \* the statements the last call sent to the pool, in order
  qb,     \* the QueryBuilder the caller holds, entityClass "" for none
  container \* Container.getInstance()

vars == <<metadata, entities, db, held, op, err, ret, stmts, qb, container>>

NoEntity == [cls |-> "", props |-> NoProps, origin |-> ""]

\* op.before: the passed instance's properties when the call was made;
\* op.rows: the rows the class's table held then; op.afterPersist: the call
\* directly follows a persist that succeeded
Call(name, c, arg, before) ==
  [ name |-> name, cls |-> c, arg |-> arg, before |-> before,
    rows |-> IF c \in Classes /\ TableName(c) \in DOMAIN db
               THEN Len(db[TableName(c)].rows) ELSE 0,
    afterPersist |-> op.name = "persist" /\ err = "" ]

Within(d) == \A t \in DOMAIN d : Len(d[t].rows) <= MaxRows /\ d[t].next <= MaxId + 1

\* values the caller assigns
IdVals == {Nil, Num(0), Num(1), Num(2)}
TextVals == {Nil, Str("a")}

ColumnProps(c) == Range(Keys(Meta(c).columns))

PropVals(c, p) == IF p = Meta(c).id THEN IdVals ELSE TextVals

\* the entity lists an application is configured with
Configs == {<<"Plain", "Item">>, <<"Tag">>, <<"Memo">>, <<"Note">>}

\* identifiers the caller looks up
FindIds == {Nil, Num(1), Num(2)}

Init ==
  /\ metadata = Loaded
  /\ container = NoContainer
  /\ entities = <<>>
  /\ db = EmptyDb
  /\ held = NoEntity
  /\ op = [name |-> "init", cls |-> "", arg |-> Nil, before |-> NoProps, rows |-> 0,
           afterPersist |-> FALSE]
  /\ err = ""
  /\ ret = Void
  /\ stmts = <<>>
  /\ qb = NoQueryBuilder

\* SpringApplication.run: schemaGenerator.generateSchema(config.entities)
Bootstrap(config) ==
  /\ op.name = "init"
  /\ entities' = config
  /\ LET r == GenerateSchema([err |-> "", stmts |-> <<>>, db |-> db], config)
     IN  /\ db' = r.db
         /\ err' = r.err
         /\ stmts' = r.stmts
  /\ op' = [Call("generateSchema", "", Nil, NoProps) EXCEPT !.arg = List(config)]
  /\ ret' = Void
  /\ UNCHANGED <<container, metadata, qb, held>>

\* const entity = new C(); entity.p = v; ...
NewEntity(c, props) ==
  /\ op.name # "init"
  /\ held' = [cls |-> c, props |-> props, origin |-> "new"]
  /\ op' = Call("new", c, Nil, NoProps)
  /\ err' = ""
  /\ ret' = Void
  /\ stmts' = <<>>
  /\ UNCHANGED <<container, metadata, qb, entities, db>>

\* entity.p = v
Assign(p, v) ==
  /\ held.cls # ""
  /\ Get(held.props, p) # v
  /\ held' = [held EXCEPT !.props = Put(@, p, v),
                          !.origin = IF p = Meta(held.cls).id THEN "new" ELSE @]
  /\ op' = Call("assign", held.cls, v, held.props)
  /\ err' = ""
  /\ ret' = Void
  /\ stmts' = <<>>
  /\ UNCHANGED <<container, metadata, qb, entities, db>>

\* await entityManager.persist(entity)   (BaseRepository.save)
PersistHeld ==
  /\ held.cls # ""
  /\ LET r == Persist(db, held)
     IN  /\ Within(r.db)
         /\ db' = r.db
         /\ held' = [held EXCEPT !.props = r.props]
         /\ err' = r.err
         /\ ret' = r.ret
         /\ stmts' = r.stmts
  /\ op' = Call("persist", held.cls, Nil, held.props)
  /\ UNCHANGED <<container, metadata, qb, entities>>

\* x = await entityManager.find(C, id)   (BaseRepository.findById);
\* with keep the caller stores a found instance in its variable
FindById(c, id, keep) ==
  /\ op.name # "init"
  /\ LET r == Find(db, c, id)
     IN  /\ err' = r.err
         /\ ret' = r.ret
         /\ stmts' = r.stmts
         /\ held' = IF keep /\ r.err = "" /\ IsObj(r.ret)
                      THEN [cls |-> c, props |-> r.ret[2].props, origin |-> "loaded"]
                      ELSE held
  /\ op' = Call("find", c, id, NoProps)
  /\ UNCHANGED <<container, metadata, qb, entities, db>>

\* the caller sees what a read-only call r threw, returned and sent
Returns(r) ==
  /\ err' = r.err
  /\ ret' = r.ret
  /\ stmts' = r.stmts

\* await entityManager.findAll(C)
FindAllOf(c) ==
  /\ op.name # "init"
  /\ Returns(FindAll(db, c))
  /\ op' = Call("findAll", c, Nil, NoProps)
  /\ UNCHANGED <<container, metadata, qb, entities, db, held>>

\* await entityManager.remove(entity)   (BaseRepository.delete)
RemoveHeld ==
  /\ held.cls # ""
  /\ LET r == Remove(db, held)
     IN  /\ db' = r.db
         /\ err' = r.err
         /\ ret' = r.ret
         /\ stmts' = r.stmts
         /\ held' = IF r.err = "" THEN [held EXCEPT !.origin = "removed"] ELSE held
  /\ op' = Call("remove", held.cls, Nil, held.props)
  /\ UNCHANGED <<container, metadata, qb, entities>>

Next ==
  \/ \E config \in Configs : Bootstrap(config)
  \/ \E c \in Range(entities) : \E props \in [ColumnProps(c) -> IdVals \cup TextVals] :
       /\ \A p \in ColumnProps(c) : props[p] \in PropVals(c, p)
       /\ NewEntity(c, props)
  \/ /\ held.cls # ""
     /\ \E p \in ColumnProps(held.cls) : \E v \in PropVals(held.cls, p) : Assign(p, v)
  \/ PersistHeld
  \/ \E c \in Range(entities) : \E id \in FindIds \cup {Get(held.props, Meta(c).id)} :
       \E keep \in BOOLEAN : FindById(c, id, keep)
  \/ \E c \in Range(entities) : FindAllOf(c)
  \/ RemoveHeld

Spec == Init /\ [][Next]_vars

----
(***************************************************************************)
(* Relationship loading.  The application is configured with User and      *)
(* Post; its set-up code persists fresh users and posts, and then the      *)
(* caller reads: findAll, findById, and the manual                         *)
(* relationshipManager.loadOneToMany(entity, propertyKey, metadata, Target)*)
(* of docs/GETTING_STARTED.md.                                             *)
(***************************************************************************)

\* the properties of the instances the set-up code persists
Fresh(c) ==
  IF c = "User" THEN { [id |-> Nil, name |-> Str("a")] }
  ELSE IF c # "Post"
    THEN { props \in [ColumnProps(c) -> TextVals] : Get(props, Meta(c).id) = Nil }
  ELSE { [id |-> Nil, author_id |-> Nil,    editor_id |-> Nil,    user_id |-> Nil],
         [id |-> Nil, author_id |-> Num(1), editor_id |-> Num(1), user_id |-> Num(1)],
         [id |-> Nil, author_id |-> Num(2), editor_id |-> Num(1), user_id |-> Nil],
         [id |-> Nil, author_id |-> Num(1), editor_id |-> Nil,    user_id |-> Num(2)] }

\* the state once SpringApplication.run has generated the schema of User and Post
InitRel ==
  /\ metadata = Loaded
  /\ container = NoContainer
  /\ entities = <<"User", "Post">>
  /\ db = GenerateSchema([err |-> "", stmts |-> <<>>, db |-> EmptyDb], <<"User", "Post">>).db
  /\ held = NoEntity
  /\ op = [name |-> "generateSchema", cls |-> "", arg |-> List(entities), before |-> NoProps,
           rows |-> 0, afterPersist |-> FALSE]
  /\ err = ""
  /\ ret = Void
  /\ stmts = <<>>
  /\ qb = NoQueryBuilder

\* set-up: e = Object.assign(new C(), props); await entityManager.persist(e),
\* before the first read
Populate(c, props) ==
  /\ op.name \in {"generateSchema", "persist"}
  /\ LET r == Persist(db, [cls |-> c, props |-> props])
     IN  /\ Within(r.db)
         /\ db' = r.db
         /\ held' = [cls |-> c, props |-> r.props, origin |-> "new"]
         /\ err' = r.err
         /\ ret' = r.ret
         /\ stmts' = r.stmts
  /\ op' = Call("persist", c, Nil, props)
  /\ UNCHANGED <<container, metadata, qb, entities>>

\* await relationshipManager.loadOneToMany(entity, propertyKey, metadata, Target)
LoadHeldOneToMany(propertyKey) ==
  /\ held.cls # ""
  /\ HasKey(Meta(held.cls).oneToMany, propertyKey)
  /\ Returns(LoadOneToMany(db, held, propertyKey,
                           Lookup(Meta(held.cls).oneToMany, propertyKey),
                           Lookup(Meta(held.cls).oneToMany, propertyKey).targetEntity))
  /\ op' = Call("loadOneToMany", held.cls, Str(propertyKey), held.props)
  /\ UNCHANGED <<container, metadata, qb, entities, db, held>>

\* await relationshipManager.loadManyToOne(entity, propertyKey, metadata, User)
LoadHeldManyToOne(propertyKey) ==
  /\ held.cls # ""
  /\ HasKey(Meta(held.cls).manyToOne, propertyKey)
  /\ Returns(LoadManyToOne(db, held, propertyKey,
                           Lookup(Meta(held.cls).manyToOne, propertyKey), "User"))
  /\ op' = Call("loadManyToOne", held.cls, Str(propertyKey), held.props)
  /\ UNCHANGED <<container, metadata, qb, entities, db, held>>

\* the descriptors a caller hands to loadOneToOne: those the decorators
\* recorded for the class, and for User the hand-written inverse side
\* {targetEntity: () => Post, mappedBy: 'author_id'} of property 'profile'
\* (the @OneToOne decorator records no mappedBy)
OneToOneDescriptors(c) ==
  Range(Meta(c).oneToOne) \cup
    (IF c = "User"
       THEN { [RelationEntry("profile", Options([targetEntity |-> "Post"]), "EAGER")
                 EXCEPT !.mappedBy = "author_id"] }
       ELSE {})

\* await relationshipManager.loadOneToOne(entity, propertyKey, metadata, Target)
LoadHeldOneToOne(relationMetadata) ==
  /\ held.cls # ""
  /\ Returns(LoadOneToOne(db, held, relationMetadata.prop, relationMetadata,
                          relationMetadata.targetEntity))
  /\ op' = Call("loadOneToOne", held.cls, Str(relationMetadata.prop), held.props)
  /\ UNCHANGED <<container, metadata, qb, entities, db, held>>

\* the posts the caller builds in memory: post.author = user (the foreign
\* key left unset), and a post whose author_id is 0
Drafts ==
  { [author |-> Obj("User", [id |-> Num(1), name |-> Str("a")])],
    [author_id |-> Num(0), editor_id |-> Num(1)] }

NextRel ==
  \/ \E c \in Range(entities) : \E props \in Fresh(c) : Populate(c, props)
  \/ \E c \in Range(entities) : \E id \in FindIds : \E keep \in BOOLEAN : FindById(c, id, keep)
  \/ \E c \in Range(entities) : FindAllOf(c)
  \/ \E id \in {Nil, Num(0)} : NewEntity("User", [id |-> id, name |-> Str("a")])
  \/ \E props \in Drafts : NewEntity("Post", props)
  \/ \E propertyKey \in {"tags", "posts", "drafts", "written"} : LoadHeldOneToMany(propertyKey)
  \/ \E relationMetadata \in OneToOneDescriptors(held.cls) : LoadHeldOneToOne(relationMetadata)
  \/ \E propertyKey \in Range(Keys(Meta(held.cls).manyToOne)) : LoadHeldManyToOne(propertyKey)

SpecRel == InitRel /\ [][NextRel]_vars

----
(***************************************************************************)
(* Many-to-many loading.  The application is configured with User and      *)
(* Post and keeps two bridge tables of its own, user_liked(user_id,        *)
(* post_id) and likes(liker, post), which its set-up code creates and      *)
(* fills through the pool; the caller then resolves the many-to-many       *)
(* properties of a user with relationshipManager.loadManyToMany.           *)
(***************************************************************************)

\* the bridge tables of the application: name -> <<owning column, inverse column>>
BridgeTables ==
  [t \in {"user_liked", "likes"} |->
     IF t = "user_liked" THEN <<"user_id", "post_id">> ELSE <<"liker", "post">>]

\* CREATE TABLE name (owning, inverse), sent through the pool
BridgeStmt(t) == [NoStmt EXCEPT !.kind = "CREATE", !.table = t, !.cols = BridgeTables[t]]

\* the state once the schema of User and Post and the bridge tables exist
InitBridge ==
  /\ metadata = Loaded
  /\ container = NoContainer
  /\ entities = <<"User", "Post">>
  /\ db = Execute(Execute(GenerateSchema([err |-> "", stmts |-> <<>>, db |-> EmptyDb],
                                         <<"User", "Post">>).db,
                          BridgeStmt("user_liked")).db,
                  BridgeStmt("likes")).db
  /\ held = NoEntity
  /\ op = [name |-> "generateSchema", cls |-> "", arg |-> List(entities), before |-> NoProps,
           rows |-> 0, afterPersist |-> FALSE]
  /\ err = ""
  /\ ret = Void
  /\ stmts = <<>>
  /\ qb = NoQueryBuilder

\* set-up: pool.execute('INSERT INTO t (owning, inverse) VALUES (?, ?)', [u, p]),
\* after the persists and before the first read
Link(t, u, p) ==
  /\ op.name \in {"generateSchema", "persist", "link"}
  /\ LET st == [NoStmt EXCEPT !.kind = "INSERT", !.table = t, !.cols = BridgeTables[t],
                              !.params = <<Num(u), Num(p)>>]
         r  == Execute(db, st)
     IN  /\ r.ok
         /\ Within(r.db)
         /\ db' = r.db
         /\ stmts' = <<st>>
  /\ op' = Call("link", "", Str(t), NoProps)
  /\ err' = ""
  /\ ret' = Void
  /\ UNCHANGED <<container, metadata, qb, entities, held>>

\* await relationshipManager.loadManyToMany(entity, propertyKey, metadata, Target)
LoadHeldManyToMany(propertyKey) ==
  /\ held.cls # ""
  /\ HasKey(Meta(held.cls).manyToMany, propertyKey)
  /\ Returns(LoadManyToMany(db, held, propertyKey,
                            Lookup(Meta(held.cls).manyToMany, propertyKey),
                            Lookup(Meta(held.cls).manyToMany, propertyKey).targetEntity))
  /\ op' = Call("loadManyToMany", held.cls, Str(propertyKey), held.props)
  /\ UNCHANGED <<container, metadata, qb, entities, db, held>>

NextBridge ==
  \/ Populate("User", [id |-> Nil, name |-> Str("a")])
  \/ Populate("Post", [id |-> Nil, author_id |-> Nil, editor_id |-> Nil, user_id |-> Nil])
  \/ \E t \in DOMAIN BridgeTables : \E p \in 1..MaxId : Link(t, 1, p)
  \/ \E id \in FindIds : FindById("User", id, TRUE)
  \/ \E id \in {Nil, Num(0)} : NewEntity("User", [id |-> id, name |-> Str("a")])
  \/ \E propertyKey \in Range(Keys(Meta(held.cls).manyToMany)) : LoadHeldManyToMany(propertyKey)

SpecBridge == InitBridge /\ [][NextBridge]_vars

----
(***************************************************************************)
(* Query building.  The application boots, its set-up code persists fresh  *)
(* instances, and the caller builds and runs QueryBuilder queries, on the  *)
(* configured classes and on Plain.                                        *)
(***************************************************************************)

MaxWhere == 2

\* the where calls the caller writes: <<condition, parameters>>
Conditions == {<<<<"id">>, <<Num(1)>>>>, <<<<"item_name">>, <<Str("a")>>>>}

\* qb = entityManager.createQueryBuilder(C)   (BaseRepository.createQueryBuilder)
CreateQueryBuilder(c) ==
  /\ op.name # "init"
  /\ qb' = QueryBuilder(c)
  /\ op' = Call("createQueryBuilder", c, Nil, NoProps)
  /\ err' = ""
  /\ ret' = Void
  /\ stmts' = <<>>
  /\ UNCHANGED <<container, metadata, entities, db, held>>

\* the arguments of a builder call, as the value op.arg records
Args(q) == <<"args", q>>

\* qb.where(condition, ...params)
CallWhere(condition, params) ==
  /\ qb.entityClass # ""
  /\ Len(qb.whereClauses) < MaxWhere
  /\ qb' = Where(qb, condition, params)
  /\ op' = Call("where", qb.entityClass, Args(<<condition, params>>), NoProps)
  /\ err' = ""
  /\ ret' = Void
  /\ stmts' = <<>>
  /\ UNCHANGED <<container, metadata, entities, db, held>>

\* qb.limit(count)
CallLimit(count) ==
  /\ qb.entityClass # ""
  /\ qb.limitClause # count
  /\ qb' = Limit(qb, count)
  /\ op' = Call("limit", qb.entityClass, Num(count), NoProps)
  /\ err' = ""
  /\ ret' = Void
  /\ stmts' = <<>>
  /\ UNCHANGED <<container, metadata, entities, db, held>>

\* await qb.getMany()
CallGetMany ==
  /\ qb.entityClass # ""
  /\ Returns(GetMany(db, qb))
  /\ op' = Call("getMany", qb.entityClass, Nil, NoProps)
  /\ UNCHANGED <<container, metadata, qb, entities, db, held>>

\* await qb.getOne()
CallGetOne ==
  /\ qb.entityClass # ""
  /\ Returns(GetOne(db, qb))
  /\ op' = Call("getOne", qb.entityClass, Nil, NoProps)
  /\ UNCHANGED <<container, metadata, qb, entities, db, held>>

NextQuery ==
  \/ \E config \in Configs : Bootstrap(config)
  \/ \E c \in Range(entities) : \E props \in Fresh(c) : Populate(c, props)
  \/ \E c \in Range(entities) \cup {"Plain"} : CreateQueryBuilder(c)
  \/ \E cond \in Conditions : CallWhere(cond[1], cond[2])
  \/ CallLimit(1)
  \/ CallGetMany
  \/ CallGetOne

SpecQuery == Init /\ [][NextQuery]_vars

----
(***************************************************************************)
(* The fluent interface.  The application is configured with Item, its     *)
(* set-up code persists fresh items, and the caller chains every builder   *)
(* method on a QueryBuilder of Item before it runs the query.              *)
(***************************************************************************)

MaxJoins == 2

\* the where and andWhere calls the caller writes: <<condition, parameters>>
Filters == {<<<<"item_name">>, <<Str("a")>>>>, <<<<"id", "item_name">>, <<Num(2), Str("a")>>>>}

\* the state once SpringApplication.run has generated the schema of Item
InitBuilder ==
  /\ metadata = Loaded
  /\ container = NoContainer
  /\ entities = <<"Item">>
  /\ db = GenerateSchema([err |-> "", stmts |-> <<>>, db |-> EmptyDb], <<"Item">>).db
  /\ held = NoEntity
  /\ op = [name |-> "generateSchema", cls |-> "", arg |-> List(entities), before |-> NoProps,
           rows |-> 0, afterPersist |-> FALSE]
  /\ err = ""
  /\ ret = Void
  /\ stmts = <<>>
  /\ qb = NoQueryBuilder

\* a builder call that took args and left the builder as q
Chained(name, args, q) ==
  /\ qb.entityClass # ""
  /\ qb' = q
  /\ op' = Call(name, qb.entityClass, Args(args), NoProps)
  /\ err' = ""
  /\ ret' = Void
  /\ stmts' = <<>>
  /\ UNCHANGED <<container, metadata, entities, db, held>>

\* qb.select(fields)
CallSelect(fields) ==
  /\ qb.selectClause # fields
  /\ Chained("select", <<fields>>, Select(qb, fields))

\* qb.andWhere(condition, ...params)
CallAndWhere(condition, params) ==
  /\ Len(qb.whereClauses) < MaxWhere
  /\ Chained("andWhere", <<condition, params>>, AndWhere(qb, condition, params))

\* qb.orderBy(field, direction)
CallOrderBy(field, direction) ==
  /\ qb.orderByClause # <<field, direction>>
  /\ Chained("orderBy", <<field, direction>>, OrderBy(qb, field, direction))

\* qb.join(table + ' j', 'j.' + column + ' = ' + table + '.' + column)
CallJoin(table, column) ==
  /\ Len(qb.joinClauses) < MaxJoins
  /\ Chained("join", <<table, column>>, Join(qb, table, column))

\* qb.leftJoin(table + ' j', 'j.' + column + ' = ' + table + '.' + column)
CallLeftJoin(table, column) ==
  /\ Len(qb.joinClauses) < MaxJoins
  /\ Chained("leftJoin", <<table, column>>, LeftJoin(qb, table, column))

NextBuilder ==
  \/ Populate("Item", [id |-> Nil, name |-> Str("a")])
  \/ CreateQueryBuilder("Item")
  \/ \E f \in Filters : CallWhere(f[1], f[2])
  \/ \E f \in Filters : CallAndWhere(f[1], f[2])
  \/ \E fields \in {"*", "id"} : CallSelect(fields)
  \/ \E order \in {<<"id", "DESC">>, <<"item_name", "ASC">>} : CallOrderBy(order[1], order[2])
  \/ CallJoin("item", "id")
  \/ CallLeftJoin("item", "item_name")
  \/ \E count \in 1..2 : CallLimit(count)
  \/ CallGetMany
  \/ CallGetOne

SpecBuilder == InitBuilder /\ [][NextBuilder]_vars

----
(***************************************************************************)
(* The container.  The application's start-up code and its tests register  *)
(* components, bind the pool, set configuration values, ask for beans by   *)
(* name and by class, and clear the container.                             *)
(***************************************************************************)

MaxBeans == 4

\* the classes handed to registerBean
Registered == {"UserRepository", "CachingUserRepository", "SmtpMailer", "AuditService"}

\* the classes registerComponents constructs itself: new RepoClass(pool)
Repositories == {"UserRepository", "CachingUserRepository"}

InitDI ==
  /\ metadata = Loaded
  /\ container = NoContainer
  /\ entities = <<>>
  /\ db = EmptyDb
  /\ held = NoEntity
  /\ op = [name |-> "init", cls |-> "", arg |-> Nil, before |-> NoProps, rows |-> 0,
           afterPersist |-> FALSE]
  /\ err = ""
  /\ ret = Void
  /\ stmts = <<>>
  /\ qb = NoQueryBuilder

\* a container call that gave r: what it threw or returned, and the
\* container it left
Answers(r) ==
  /\ r.ct.made <= MaxBeans
  /\ container' = r.ct
  /\ err' = r.err
  /\ ret' = r.ret
  /\ stmts' = <<>>

\* a container call that returned nothing and left the container as ct
Leaves(ct) == Answers([err |-> "", ret |-> Void, ct |-> ct])

\* container.setPool(databaseManager.getPool()), before registerComponents
CallSetPool ==
  /\ container.pool = Nil
  /\ container.beanTypes = <<>>
  /\ Leaves(SetPool(container, Pool))
  /\ op' = Call("setPool", "", Pool, NoProps)
  /\ UNCHANGED <<metadata, entities, db, held, qb>>

\* container.setConfig(key, value), before registerComponents
CallSetConfig(key, value) ==
  /\ GetConfig(container, key) # value
  /\ container.beanTypes = <<>>
  /\ Leaves(SetConfig(container, key, value))
  /\ op' = Call("setConfig", "", Str(key), NoProps)
  /\ UNCHANGED <<metadata, entities, db, held, qb>>

\* container.registerBean(target)
CallRegisterBean(target) ==
  /\ Leaves(RegisterBean(container, target, Nil))
  /\ op' = Call("registerBean", target, Nil, NoProps)
  /\ UNCHANGED <<metadata, entities, db, held, qb>>

\* container.registerBean(target, new target(pool))
CallRegisterInstance(target) ==
  /\ Leaves([RegisterBean(container, target,
                        Bean(target, container.made + 1, <<container.pool>>, NoProps))
             EXCEPT !.made = @ + 1])
  /\ op' = Call("registerBean", target,
                Bean(target, container.made + 1, <<container.pool>>, NoProps), NoProps)
  /\ UNCHANGED <<metadata, entities, db, held, qb>>

\* container.getBean(name)
CallGetBean(name) ==
  /\ Answers(GetBean(container, name, FALSE, 0))
  /\ op' = Call("getBean", "", Str(name), NoProps)
  /\ UNCHANGED <<metadata, entities, db, held, qb>>

\* container.getBean(type)
CallGetBeanOfType(type) ==
  /\ Answers(GetBean(container, type, TRUE, 0))
  /\ op' = Call("getBean", type, Nil, NoProps)
  /\ UNCHANGED <<metadata, entities, db, held, qb>>

\* container.clear()
CallClear ==
  /\ op.name # "clear"
  /\ Leaves(Clear(container))
  /\ op' = Call("clear", "", Nil, NoProps)
  /\ UNCHANGED <<metadata, entities, db, held, qb>>

NextDI ==
  \/ CallSetPool
  \/ CallSetConfig("mail.host", Str("a"))
  \/ \E target \in Registered : CallRegisterBean(target)
  \/ \E target \in Repositories : CallRegisterInstance(target)
  \/ \E name \in {BeanName(c) : c \in Registered} : CallGetBean(name)
  \/ \E type \in {"UserRepository", "Mailer"} : CallGetBeanOfType(type)
  \/ CallClear

SpecDI == InitDI /\ [][NextDI]_vars

\* the classes the second application hands to registerBean when it looks
\* its notifiers up by class
Scanned == {"Notifier", "EmailNotifier"}

NextScan ==
  \/ \E target \in Scanned : CallRegisterBean(target)
  \/ \E name \in Scanned : CallGetBean(name)
  \/ \E type \in Scanned : CallGetBeanOfType(type)
  \/ CallClear

SpecScan == InitDI /\ [][NextScan]_vars

\* the classes the second application hands to registerBean when it wires
\* its services, which depend on each other
Wired == {"OrderService", "BillingService", "Publisher", "Subscriber"}

NextWiring ==
  \/ \E target \in Wired : CallRegisterBean(target)
  \/ \E name \in Wired : CallGetBean(name)
  \/ CallGetBeanOfType("OrderService")
  \/ CallClear

SpecWiring == InitDI /\ [][NextWiring]_vars

----
(***************************************************************************)
(* Declarations applied one at a time.  A third application declares a     *)
(* mapped superclass and two entities that extend it; its class bodies     *)
(* are evaluated one class after the other, a superclass before its        *)
(* subclasses, and the members of a class in the order the author wrote    *)
(* them.                                                                   *)
(*                                                                         *)
(*   BaseEntity                                                            *)
(*   Account  extends BaseEntity                                           *)
(*   Invoice  extends BaseEntity                                           *)
(***************************************************************************)

Declarable == {"BaseEntity", "Account", "Invoice"}

\* Object.getPrototypeOf(c), for a class of the third application
Superclass(c) == IF c \in {"Account", "Invoice"} THEN "BaseEntity" ELSE ""

\* the keys whose value is an object the decorators add entries to
MapKeys == {"columns", "oneToMany", "manyToOne", "manyToMany", "oneToOne"}

RECURSIVE Holder(_, _, _)
\* the nearest class on the prototype chain of c with own metadata under key
Holder(store, key, c) ==
  IF c = "" THEN ""
  ELSE IF store[c][key] # EmptyMeta[key] THEN c
  ELSE Holder(store, key, Superclass(c))

\* Reflect.getMetadata(KEY, c): own metadata, else the superclass's
GetMetadata(store, key, c) ==
  IF Holder(store, key, c) = "" THEN EmptyMeta[key] ELSE store[Holder(store, key, c)][key]

\* every key as getMetadata reads it for class c
Seen(store, c) ==
  [key \in DOMAIN EmptyMeta |->
     IF key = "sameAs" THEN EmptyMeta.sameAs ELSE GetMetadata(store, key, c)]

\* the class whose decorator created the object class c holds under key
Origin(store, key, c) == OrName(store[c].sameAs[key], c)

\* existing[propertyKey] = ...; Reflect.defineMetadata(KEY, existing, c):
\* getMetadata returned the holder's object, the assignment changes it in
\* place for every class that holds it, and c now holds it as well
DefineShared(store, key, c, value) ==
  [x \in DOMAIN store |->
     IF x = c
       THEN [store[x] EXCEPT ![key] = value,
                             !.sameAs[key] = IF Holder(store, key, c) \in {"", c} THEN @
                                             ELSE Origin(store, key, Holder(store, key, c))]
     ELSE IF /\ Holder(store, key, c) # ""
             /\ store[x][key] # EmptyMeta[key]
             /\ Origin(store, key, x) = Origin(store, key, Holder(store, key, c))
       THEN [store[x] EXCEPT ![key] = value]
     ELSE store[x]]

\* Reflect.defineMetadata(KEY, value, c) of a decorator applied to class c,
\* decorated being what it computed from the metadata it read
DefineMetadata(store, key, c, decorated) ==
  IF key \in MapKeys THEN DefineShared(store, key, c, decorated[key])
  ELSE [store EXCEPT ![c] = [@ EXCEPT ![key] = decorated[key]]]

\* the most declarations the third application applies
MaxDecls == 3

\* the member names and options the third application declares
Members == {"id", "name"}
ColumnChoices == {NoOptions, Options([name |-> "col"])}
StrategyChoices == {NoOptions, Options([strategy |-> "IDENTITY"])}

\* the relationship declarations of the third application, as the arguments
\* the decorator factory is called with:
\*   OneToMany({targetEntity: () => Invoice, mappedBy: 'account', fetch: 'EAGER'})
\*   OneToMany(() => Invoice, {mappedBy: 'account', fetch: 'LAZY'})
\*   ManyToOne({targetEntity: () => Account, fetch: 'LAZY'})
\*   ManyToOne(() => Account, {fetch: 'EAGER'})
ToMany ==
  { <<Options([targetEntity |-> "Invoice", mappedBy |-> "account", fetch |-> "EAGER"])>>,
    <<Thunk("Invoice"), Options([mappedBy |-> "account", fetch |-> "LAZY"])>> }
ToOne ==
  { <<Options([targetEntity |-> "Account", fetch |-> "LAZY"])>>,
    <<Thunk("Account"), Options([fetch |-> "EAGER"])>> }

InitDecl ==
  /\ metadata = [c \in Declarable |-> EmptyMeta]
  /\ container = NoContainer
  /\ entities = <<>>
  /\ db = EmptyDb
  /\ held = NoEntity
  /\ op = [name |-> "init", cls |-> "", prop |-> "", arguments |-> <<>>, defined |-> <<>>,
           applied |-> 0, before |-> EmptyMeta]
  /\ err = ""
  /\ ret = Void
  /\ stmts = <<>>
  /\ qb = NoQueryBuilder

\* class c can be the one whose body is being evaluated: it is the class of
\* the previous declaration, or a class whose body was not evaluated yet and
\* whose superclass has no subclass body under evaluation
Evaluating(c) ==
  /\ op.applied < MaxDecls
  /\ \/ op.defined # <<>> /\ op.defined[Len(op.defined)] = c
     \/ /\ \A i \in 1..Len(op.defined) : op.defined[i] # c
        /\ \A i \in 1..Len(op.defined) : Superclass(op.defined[i]) # c

\* a decorator applied to member propertyKey of class c has run
Decorated(name, c, propertyKey, arguments) ==
  /\ op' = [name |-> name, cls |-> c, prop |-> propertyKey, arguments |-> arguments,
            defined |-> IF op.cls = c THEN op.defined ELSE Append(op.defined, c),
            applied |-> op.applied + 1, before |-> Seen(metadata, c)]
  /\ UNCHANGED <<entities, db, held, err, ret, stmts, qb, container>>

CallColumn(c, propertyKey, options) ==
  /\ Evaluating(c)
  /\ metadata' = DefineMetadata(metadata, "columns", c,
                                Column(Seen(metadata, c), propertyKey, options))
  /\ Decorated("Column", c, propertyKey, <<options>>)

CallId(c, propertyKey) ==
  /\ Evaluating(c)
  /\ metadata' = DefineMetadata(metadata, "id", c, Id(Seen(metadata, c), propertyKey))
  /\ Decorated("Id", c, propertyKey, <<>>)

CallGeneratedValue(c, propertyKey, options) ==
  /\ Evaluating(c)
  /\ metadata' = DefineMetadata(metadata, "generated", c,
                                GeneratedValue(Seen(metadata, c), propertyKey, options))
  /\ Decorated("GeneratedValue", c, propertyKey, <<options>>)

\* OneToMany(...arguments) applied to propertyKey: the factory has one parameter
CallOneToMany(c, propertyKey, arguments) ==
  /\ Evaluating(c)
  /\ metadata' = DefineMetadata(metadata, "oneToMany", c,
                                OneToMany(Seen(metadata, c), propertyKey, arguments[1]))
  /\ Decorated("OneToMany", c, propertyKey, arguments)

\* ManyToOne(...arguments) applied to propertyKey: the factory has one parameter
CallManyToOne(c, propertyKey, arguments) ==
  /\ Evaluating(c)
  /\ metadata' = DefineMetadata(metadata, "manyToOne", c,
                                ManyToOne(Seen(metadata, c), propertyKey, arguments[1]))
  /\ Decorated("ManyToOne", c, propertyKey, arguments)

\* the classes of the third application that declare an identifier, and
\* those that declare each kind of relationship
Identified == {"BaseEntity", "Account"}
Owning == {"BaseEntity", "Account"}
Owned == {"Account", "Invoice"}

NextDecl ==
  \/ \E c \in Declarable, p \in Members, options \in ColumnChoices : CallColumn(c, p, options)
  \/ \E c \in Identified, p \in Members : CallId(c, p)
  \/ \E c \in Identified, options \in StrategyChoices : CallGeneratedValue(c, "id", options)
  \/ \E c \in Owning, arguments \in ToMany : CallOneToMany(c, "invoices", arguments)
  \/ \E c \in Owned, arguments \in ToOne : CallManyToOne(c, "account", arguments)

SpecDecl == InitDecl /\ [][NextDecl]_vars

----
(***************************************************************************)
(* Properties of the referenced column, checked under SpecRel              *)
(***************************************************************************)

\* the referenced column declared for a relationship of class c: by
\* @JoinColumn, else by the joinColumn option, else none ("")
DeclaredReference(c, relationMetadata) ==
  IF HasKey(Meta(c).joinColumn, relationMetadata.prop)
    THEN Lookup(Meta(c).joinColumn, relationMetadata.prop).referencedColumnName
    ELSE relationMetadata.referencedColumnName

\* C25: the many-to-one lookup filters the target table on the referenced
\* column declared for the relationship, by a join-column declaration or by
\* the joinColumn option's referencedColumnName, and on id when none is
\* declared.
C25_DeclaredReferenceWins ==
  (op.name = "loadManyToOne" /\ stmts # <<>>) =>
    stmts[1].where = OrName(DeclaredReference(op.cls,
                                              Lookup(Meta(op.cls).manyToOne, op.arg[2])), "id")

\* C30: every declared column property of every instance findAll returns
\* holds the value of its column in the instance's result row, also when the
\* property carries a many-to-one or one-to-one declaration as well.
C30_ColumnsKeepRowValues ==
  (op.name = "findAll" /\ err = "" /\ op.cls \in Classes) =>
    /\ Len(ret[2]) = Len(db[TableName(op.cls)].rows)
    /\ \A i \in 1..Len(ret[2]) : \A p \in ColumnProps(op.cls) :
         Get(ret[2][i][2].props, p)
           = Get(MapRows(db, op.cls, TableName(op.cls),
                         Execute(db, FindAllStmt(op.cls)).rows)[i][2].props, p)

----
(***************************************************************************)
(* Properties of the statement text, checked under SpecBuilder             *)
(***************************************************************************)

\* the place of a clause in SELECT, FROM, joins, WHERE, ORDER BY, LIMIT
Rank(clause) ==
  CASE clause[1] = "SELECT"   -> 1
    [] clause[1] = "FROM"     -> 2
    [] clause[1] \in {"JOIN", "LEFT JOIN"} -> 3
    [] clause[1] = "WHERE"    -> 4
    [] clause[1] = "ORDER BY" -> 5
    [] clause[1] = "LIMIT"    -> 6

\* the clauses of a text whose place is among ranks, in the order of the text
RECURSIVE Clauses(_, _)
Clauses(text, ranks) ==
  IF text = <<>> THEN <<>>
  ELSE IF Rank(Head(text)) \in ranks THEN <<Head(text)>> \o Clauses(Tail(text), ranks)
  ELSE Clauses(Tail(text), ranks)

\* the clauses are in the fixed order, each but the joins at most once
FixedOrder(text) ==
  /\ Len(text) >= 2 /\ Rank(text[1]) = 1 /\ Rank(text[2]) = 2
  /\ \A i \in 1..(Len(text) - 1) :
       \/ Rank(text[i]) < Rank(text[i + 1])
       \/ Rank(text[i]) = 3 /\ Rank(text[i + 1]) = 3

\* the call just made wrote the clauses of place rank as written and left
\* every other clause of the text as it was
Rewrote(rank, written) ==
  /\ Clauses(BuildQueryText(qb'), {rank}) = written
  /\ Clauses(BuildQueryText(qb'), (1..6) \ {rank}) = Clauses(BuildQueryText(qb), (1..6) \ {rank})

\* C24: the statement text has the clause order SELECT, FROM, joins, WHERE,
\* ORDER BY, LIMIT whatever the order of the fluent calls; the joins are in
\* call order; of select, orderBy and limit only the most recent call is
\* rendered; a new builder renders SELECT * FROM table and nothing else.
C24_FixedClauseOrder ==
  [][/\ qb'.entityClass # "" => FixedOrder(BuildQueryText(qb'))
     /\ op'.name = "createQueryBuilder" =>
          BuildQueryText(qb') = <<<<"SELECT", "*">>, <<"FROM", TableName(op'.cls)>>>>
     /\ op'.name = "select" => Rewrote(1, <<<<"SELECT", op'.arg[2][1]>>>>)
     /\ op'.name = "orderBy" =>
          Rewrote(5, <<<<"ORDER BY", op'.arg[2][1], op'.arg[2][2]>>>>)
     /\ op'.name = "limit" => Rewrote(6, <<<<"LIMIT", op'.arg[2]>>>>)
     /\ op'.name = "join" =>
          Rewrote(3, Append(Clauses(BuildQueryText(qb), {3}),
                            <<"JOIN", op'.arg[2][1], op'.arg[2][2]>>))
     /\ op'.name = "leftJoin" =>
          Rewrote(3, Append(Clauses(BuildQueryText(qb), {3}),
                            <<"LEFT JOIN", op'.arg[2][1], op'.arg[2][2]>>))
     /\ op'.name \in {"where", "andWhere", "getMany", "getOne", "persist"} =>
          Clauses(BuildQueryText(qb'), {1, 2, 3, 5, 6})
            = Clauses(BuildQueryText(qb), {1, 2, 3, 5, 6})]_vars

\* orderBy was called last, on a builder that had two joins, a condition, a
\* limit and an earlier, different ordering
C24_Witness ==
  /\ op.name = "orderBy"
  /\ Len(qb.joinClauses) = 2
  /\ qb.joinClauses[1].type # qb.joinClauses[2].type
  /\ Len(qb.whereClauses) > 0
  /\ qb.limitClause = 2
  /\ qb.selectClause = "id"
  /\ qb.orderByClause = <<"item_name", "ASC">>

----
(***************************************************************************)
(* Properties of the declarations, checked under SpecDecl                  *)
(***************************************************************************)

\* the identifier, the generation strategy and the column descriptors read
\* for class c
Descriptors(store, c) ==
  [ id        |-> GetMetadata(store, "id", c),
    generated |-> GetMetadata(store, "generated", c),
    columns   |-> Range(GetMetadata(store, "columns", c)) ]

\* the identifier, generated-value and column declarations a class can carry
Declarations ==
  {[name |-> "Column", prop |-> p, options |-> o] : p \in Members, o \in ColumnChoices}
  \cup {[name |-> "Id", prop |-> p, options |-> NoOptions] : p \in Members}
  \cup {[name |-> "GeneratedValue", prop |-> "id", options |-> o] : o \in StrategyChoices}

\* what a declaration describes: one property's column, the identifier, or
\* the generation strategy
Describes(d) == IF d.name = "Column" THEN <<d.name, d.prop>> ELSE <<d.name, "">>

\* the store once declaration d of class c has been applied to it
Declare(store, c, d) ==
  IF d.name = "Column"
    THEN DefineMetadata(store, "columns", c, Column(Seen(store, c), d.prop, d.options))
  ELSE IF d.name = "Id"
    THEN DefineMetadata(store, "id", c, Id(Seen(store, c), d.prop))
  ELSE DefineMetadata(store, "generated", c,
                      GeneratedValue(Seen(store, c), d.prop, d.options))

\* two declarations of class c that describe different things give the same
\* descriptors in either order
Commute(store, c) ==
  \A d1 \in Declarations, d2 \in Declarations :
     Describes(d1) # Describes(d2) =>
       LET oneWay == Declare(Declare(store, c, d1), c, d2)
           otherWay == Declare(Declare(store, c, d2), c, d1)
       IN  Descriptors(oneWay, c) = Descriptors(otherWay, c)

\* a column declaration on op.prop set that property's descriptor and left
\* the sibling descriptors, the identifier and the strategy as they were
ColumnFrame ==
  /\ HasKey(GetMetadata(metadata, "columns", op.cls), op.prop)
  /\ Lookup(GetMetadata(metadata, "columns", op.cls), op.prop)
       = [prop |-> op.prop, name |-> OrName(Opt(op.arguments[1], "name"), op.prop)]
  /\ \A q \in Members \ {op.prop} :
       /\ HasKey(GetMetadata(metadata, "columns", op.cls), q) = HasKey(op.before.columns, q)
       /\ HasKey(op.before.columns, q) =>
            Lookup(GetMetadata(metadata, "columns", op.cls), q) = Lookup(op.before.columns, q)
  /\ GetMetadata(metadata, "id", op.cls) = op.before.id
  /\ GetMetadata(metadata, "generated", op.cls) = op.before.generated

\* C22: a column declaration on property p of a class replaces the descriptor
\* of p only, leaving the sibling descriptors, the identifier property and
\* the generation strategy of the class unchanged; and the descriptors read
\* for the class do not depend on the order in which its identifier,
\* generated-value and column declarations were applied.
C22_AdditiveAndOrderFree ==
  /\ op.name = "Column" => ColumnFrame
  /\ \A c \in Declarable : (op.cls \in {"", c}) => Commute(metadata, c)

\* a column declaration replaced the descriptor of a property that has a
\* declared sibling
C22_Witness ==
  /\ op.name = "Column"
  /\ HasKey(op.before.columns, op.prop)
  /\ Lookup(op.before.columns, op.prop).name # OrName(Opt(op.arguments[1], "name"), op.prop)
  /\ \E q \in Members \ {op.prop} : HasKey(op.before.columns, q)

\* C23: a relationship declared in the two-argument form, thunk first and
\* options second, is described with the class the thunk returns as target
\* entity and the mappedBy and fetch of the options.
C23_TwoArgumentForm ==
  (op.name \in {"OneToMany", "ManyToOne"} /\ Len(op.arguments) = 2) =>
    /\ Lookup(GetMetadata(metadata, IF op.name = "OneToMany" THEN "oneToMany" ELSE "manyToOne",
                          op.cls), op.prop).targetEntity = op.arguments[1].targetEntity
    /\ Lookup(GetMetadata(metadata, IF op.name = "OneToMany" THEN "oneToMany" ELSE "manyToOne",
                          op.cls), op.prop).fetch = op.arguments[2].fetch
    /\ op.name = "OneToMany" =>
         Lookup(GetMetadata(metadata, "oneToMany", op.cls), op.prop).mappedBy
           = op.arguments[2].mappedBy

\* C27: a column or relationship declaration applied to a property of one
\* class leaves the column and relationship descriptors read for every other
\* declared class as they were, also when the class extends the other.
C27_IsolatedBetweenClasses ==
  [][\A x \in Declarable, key \in MapKeys :
       (x # op'.cls /\ \E i \in 1..Len(op.defined) : op.defined[i] = x) =>
         GetMetadata(metadata', key, x) = GetMetadata(metadata, key, x)]_vars

----
(***************************************************************************)
(* Concurrent saves.  The application is configured with Stock, whose      *)
(* table holds the item its callers work on.  Request handlers save        *)
(* their own instance of that item without waiting for each other: a call  *)
(* of persist runs up to its await of pool.execute, the database executes  *)
(* the statements it was sent one at a time in an order of its own, and    *)
(* each call resumes once its statement has been executed.                 *)
(***************************************************************************)

\* the request handlers that save at the same time
MaxCallers == 2
Callers == 1..MaxCallers

\* the instances the handlers save: the stored item, with their own values
Saved == { [sku |-> Num(1), count |-> count, place |-> place] :
             count \in {Num(1), Num(2)}, place \in {Str("a"), Str("b")} }

\* the row of the item, which the warehouse import wrote to the table (for
\* a class without the AUTO strategy persist inserts no row that has an
\* identifier)
Imported == [sku |-> Num(1), qty |-> Num(0), place |-> Str("")]

\* a handler that is not inside persist
Idle == [pc |-> "idle", props |-> NoProps, err |-> ""]

\* the state once the schema of Stock is generated and the item imported
InitRace ==
  /\ metadata = Loaded
  /\ container = NoContainer
  /\ entities = <<"Stock">>
  /\ db = [GenerateSchema([err |-> "", stmts |-> <<>>, db |-> EmptyDb], <<"Stock">>).db
             EXCEPT !["stock"].rows = <<Imported>>]
  /\ held = NoEntity
  /\ op = [name |-> "persist", cls |-> "Stock", caller |-> 0,
           calls |-> [i \in Callers |-> Idle], last |-> NoProps]
  /\ err = ""
  /\ ret = Void
  /\ stmts = <<>>
  /\ qb = NoQueryBuilder

\* handler i calls entityManager.persist(entity): persist reads the entity's
\* values, builds its statement and hands it to pool.execute
CallPersist(i, props) ==
  /\ op.calls[i].pc = "idle"
  /\ UpdatePath(Get(props, Meta("Stock").id), Meta("Stock").generated)
  /\ op' = [op EXCEPT !.name = "call", !.caller = i,
                      !.calls[i] = [pc |-> "sent", props |-> props, err |-> ""]]
  /\ UNCHANGED <<metadata, entities, db, held, err, ret, stmts, qb, container>>

\* the database executes the statement of handler i's call
ExecuteSent(i) ==
  /\ op.calls[i].pc = "sent"
  /\ db' = Persist(db, [cls |-> "Stock", props |-> op.calls[i].props]).db
  /\ stmts' = Persist(db, [cls |-> "Stock", props |-> op.calls[i].props]).stmts
  /\ op' = [op EXCEPT !.name = "execute", !.caller = i,
                      !.calls[i].pc = "executed",
                      !.calls[i].err =
                         Persist(db, [cls |-> "Stock", props |-> op.calls[i].props]).err,
                      !.last = op.calls[i].props]
  /\ UNCHANGED <<metadata, entities, held, err, ret, qb, container>>

\* handler i's await resumes: persist returns the entity or throws
Resume(i) ==
  /\ op.calls[i].pc = "executed"
  /\ err' = op.calls[i].err
  /\ ret' = Self
  /\ op' = [op EXCEPT !.name = "resume", !.caller = i, !.calls[i] = Idle]
  /\ UNCHANGED <<metadata, entities, db, held, stmts, qb, container>>

NextRace ==
  \/ \E i \in Callers, props \in Saved : CallPersist(i, props)
  \/ \E i \in Callers : ExecuteSent(i)
  \/ \E i \in Callers : Resume(i)

SpecRace == InitRace /\ [][NextRace]_vars

----
(***************************************************************************)
(* Properties of concurrent saves, checked under SpecRace                  *)
(***************************************************************************)

\* the stored rows of Stock whose identifier is that of the instance saved
\* by the statement executed last
RowsSavedLast ==
  {k \in 1..Len(db["stock"].rows) :
     db["stock"].rows[k][IdColumn("Stock", "")] = Get(op.last, Meta("Stock").id)}

\* C26: when update-path persist calls for the same identifier overlap, the
\* stored row holds every non-identifier column of the instance whose UPDATE
\* was executed last, so never a mix of two instances, and no call fails.
C26_LastWriteWins ==
  /\ \A i \in Callers : op.calls[i].err = ""
  /\ err = ""
  /\ op.last # NoProps =>
       /\ Cardinality(RowsSavedLast) = 1
       /\ \A k \in RowsSavedLast : \A p \in ColumnProps("Stock") \ {Meta("Stock").id} :
            db["stock"].rows[k][ColumnName("Stock", p)] = Get(op.last, p)

\* both handlers were inside persist at once with instances that differ in
\* every column, both statements have been executed, and neither has resumed
C26_Witness ==
  /\ \A i \in Callers : op.calls[i].pc = "executed"
  /\ \A p \in {"count", "place"} : Get(op.calls[1].props, p) # Get(op.calls[2].props, p)
  /\ op.last = op.calls[1].props
  /\ \A k \in RowsSavedLast : db["stock"].rows[k]["qty"] = Get(op.calls[1].props, "count")

----
(***************************************************************************)
(* Properties of persist, find and remove, checked under Spec              *)
(***************************************************************************)

\* the identifier value the passed instance carried when the call was made
IdBefore ==
  IF Meta(op.cls).id # "" THEN Get(op.before, Meta(op.cls).id) ELSE Nil

\* the rows the table of the call's class holds now
RowsNow ==
  IF TableName(op.cls) \in DOMAIN db THEN db[TableName(op.cls)].rows ELSE <<>>

\* the column names of the declared column properties other than the identifier
NonIdColumns(c) == {ColumnName(c, p) : p \in ColumnProps(c) \ {Meta(c).id}}

C2_FalsyIdAlwaysBackFilled ==
  (op.name = "persist" /\ Meta(op.cls).entity # "" /\ Meta(op.cls).id # ""
     /\ ~Truthy(IdBefore) /\ err = "") =>
    /\ stmts[1].kind = "INSERT"
    /\ ret = Self
    /\ Truthy(Get(held.props, Meta(op.cls).id))

\* C2 amended: persisting an instance with a falsy identifier inserts and
\* returns the passed instance; the identifier property is set to the
\* inserted row's generated identifier when the strategy is AUTO, and the
\* instance is left exactly as it was under any other strategy or none.
C2_FalsyIdInsert ==
  (op.name = "persist" /\ Meta(op.cls).entity # "" /\ Meta(op.cls).id # ""
     /\ ~Truthy(IdBefore)) =>
    LET m == Meta(op.cls)
    IN  /\ Len(stmts) = 1 /\ stmts[1].kind = "INSERT"
        /\ err = "" =>
              /\ ret = Self
              /\ Len(RowsNow) = op.rows + 1
              /\ IF m.generated = "AUTO"
                   THEN /\ Truthy(Get(held.props, m.id))
                        /\ Get(held.props, m.id) = RowsNow[Len(RowsNow)][ColumnName(op.cls, m.id)]
                        /\ \A p \in (DOMAIN held.props) \ {m.id} :
                              p \in DOMAIN op.before /\ held.props[p] = op.before[p]
                   ELSE held.props = op.before

\* C2 witness: a Tag (strategy IDENTITY) was inserted and its identifier is still falsy
C2_Witness ==
  /\ op.name = "persist" /\ op.cls = "Tag" /\ err = ""
  /\ stmts[1].kind = "INSERT"
  /\ ~Truthy(IdBefore)
  /\ ~Truthy(Get(held.props, "id"))

\* C3: round trip.  find with the back-filled identifier, called right
\* after a successful persist of an instance E of a class with an AUTO
\* identifier, returns an instance whose every declared column property
\* equals E's.
C3_RoundTrip ==
  (op.name = "find" /\ op.afterPersist /\ op.cls = held.cls
     /\ Meta(op.cls).generated = "AUTO" /\ Meta(op.cls).id # ""
     /\ op.arg = Get(held.props, Meta(op.cls).id)) =>
    /\ err = ""
    /\ IsObj(ret)
    /\ ret[2].cls = held.cls
    /\ \A p \in ColumnProps(op.cls) : Get(ret[2].props, p) = Get(held.props, p)

\* C3 witness: an Item named "a" was persisted with a generated identifier and found again
C3_Witness ==
  /\ op.name = "find" /\ op.afterPersist /\ op.cls = "Item" /\ held.cls = "Item"
  /\ held.origin = "new"
  /\ op.arg = Get(held.props, "id") /\ op.arg = Num(2)
  /\ Get(held.props, "name") = Str("a")
  /\ ret = Obj("Item", [id |-> Num(2), name |-> Str("a")])

\* C4 as stated: saving an instance of an AUTO class that findById loaded
\* (and the caller changed) succeeds, leaves the row count as it was, and
\* the row of that identifier holds the instance's column values.
C4_SaveLoadedUpdatesRow ==
  (op.name = "persist" /\ held.origin = "loaded" /\ Meta(op.cls).entity # ""
     /\ Meta(op.cls).generated = "AUTO" /\ Meta(op.cls).id # "") =>
    /\ err = ""
    /\ Len(RowsNow) = op.rows
    /\ LET r == Find(db, op.cls, IdBefore)
       IN  /\ IsObj(r.ret)
           /\ \A p \in ColumnProps(op.cls) : Get(r.ret[2].props, p) = Get(held.props, p)

\* C6: remove on an entity class throws and sends nothing when the class
\* has no identifier property or the instance's identifier value is falsy;
\* otherwise it sends exactly one DELETE, WHERE the identifier column = the
\* instance's identifier value.
C6_RemoveContract ==
  (op.name = "remove" /\ Meta(op.cls).entity # "") =>
    LET m == Meta(op.cls)
    IN  IF m.id = "" \/ ~Truthy(IdBefore)
          THEN /\ err \in {"no ID property", "no ID value"}
               /\ stmts = <<>>
               /\ Len(RowsNow) = op.rows
          ELSE /\ stmts = <<[NoStmt EXCEPT !.kind = "DELETE", !.table = TableName(op.cls),
                                           !.where = ColumnName(op.cls, m.id),
                                           !.params = <<IdBefore>>]>>
               /\ err = "" => \A i \in 1..Len(RowsNow) :
                                RowsNow[i][ColumnName(op.cls, m.id)] # IdBefore

\* C6 witness: an Item row was deleted by its identifier
C6_Witness ==
  /\ op.name = "remove" /\ op.cls = "Item" /\ err = ""
  /\ stmts[1].kind = "DELETE" /\ stmts[1].params = <<Num(1)>>
  /\ Len(RowsNow) = op.rows - 1

\* C7: persist, find, findAll and remove on a class with no entity
\* descriptor throw before any statement is sent: nothing is sent, and the
\* database and the passed instance are as they were.
C7_FailFast ==
  [][ (op'.name \in {"persist", "find", "findAll", "remove"} /\ Meta(op'.cls).entity = "") =>
        /\ err' = "not an entity"
        /\ stmts' = <<>>
        /\ db' = db
        /\ held' = held ]_vars

\* C7 witness: persist of a Plain instance (no @Entity) was refused with rows in the database
C7_Witness ==
  /\ op.name = "persist" /\ op.cls = "Plain" /\ err = "not an entity"
  /\ Get(held.props, "id") = Num(1)
  /\ "item" \in DOMAIN db /\ Len(db["item"].rows) > 0

\* C9 as stated: persisting an instance of an entity class that declares no
\* identifier property throws and sends no statement.
C9_PersistWithoutIdThrows ==
  (op.name = "persist" /\ Meta(op.cls).entity # "" /\ Meta(op.cls).id = "") =>
    err # "" /\ stmts = <<>>

\* C9 amended: persisting an instance of an entity class that declares no
\* identifier property raises no configuration error: it sends one INSERT
\* over the declared columns, and on success a row is added, the passed
\* instance is returned, and nothing is back-filled.
C9_PersistWithoutIdInserts ==
  (op.name = "persist" /\ Meta(op.cls).entity # "" /\ Meta(op.cls).id = "") =>
    /\ err \in {"", "db"}
    /\ Len(stmts) = 1
    /\ stmts[1].kind = "INSERT"
    /\ Range(stmts[1].cols) = {ColumnName(op.cls, p) : p \in ColumnProps(op.cls)}
    /\ err = "" => /\ ret = Self
                   /\ held.props = op.before
                   /\ Len(RowsNow) = op.rows + 1

\* C9 witness: a Note (no @Id) was inserted
C9_Witness ==
  /\ op.name = "persist" /\ op.cls = "Note" /\ err = ""
  /\ stmts[1].kind = "INSERT"
  /\ Len(RowsNow) = 2
  /\ RowsNow[2] = [text |-> Str("a")]

----
(***************************************************************************)
(* Properties of relationship loading, checked under SpecRel               *)
(***************************************************************************)

\* the instances the last findAll returned
Returned == IF op.name = "findAll" /\ err = "" THEN ret[2] ELSE <<>>

\* the property names of the relationships rels whose fetch strategy is in fetches
RelProps(rels, fetches) == {rels[j].prop : j \in {i \in 1..Len(rels) : rels[i].fetch \in fetches}}

\* C5 as stated: after findAll, on every returned instance every
\* many-to-one and one-to-one relationship whose fetch strategy is EAGER is
\* assigned to its property, and every LAZY one and every one-to-many and
\* many-to-many relationship is left unpopulated.
C5_EagerResolvedOthersNot ==
  \A i \in 1..Len(Returned) :
    LET m     == Meta(op.cls)
        props == Returned[i][2].props
    IN  /\ RelProps(m.manyToOne, {"EAGER"}) \cup RelProps(m.oneToOne, {"EAGER"})
              \subseteq DOMAIN props
        /\ (RelProps(m.manyToOne, {"LAZY"}) \cup RelProps(m.oneToOne, {"LAZY"})
              \cup RelProps(m.oneToMany, {"LAZY", "EAGER"})
              \cup RelProps(m.manyToMany, {"LAZY", "EAGER"})) \cap DOMAIN props = {}

\* the one-to-many descriptor the last loadOneToMany was given
LoadedRel == Lookup(Meta(op.cls).oneToMany, op.arg[2])

\* C10 as stated: resolving a one-to-many relationship whose descriptor has
\* no mappedBy throws, sends no query and returns no list.
C10_NoMappedByThrows ==
  (op.name = "loadOneToMany" /\ LoadedRel.mappedBy = "") =>
    err # "" /\ stmts = <<>> /\ ret[1] # "list"

\* C10 amended: resolving a one-to-many relationship whose descriptor has no
\* mappedBy raises no configuration error, the property name standing in
\* for mappedBy: with a falsy owner identifier it returns the empty list
\* and sends nothing; otherwise it sends one SELECT on the target's table,
\* WHERE <the column of the target's property of that name, or else
\* <owner class, lower-cased>_id> = the owner's identifier, and returns the
\* matching rows as target instances.
C10_NoMappedByFallsBack ==
  (op.name = "loadOneToMany" /\ LoadedRel.mappedBy = "") =>
    LET target == LoadedRel.targetEntity
        prop   == op.arg[2]
        id     == OrElse(IdBefore, Get(op.before, "id"))
        fk     == IF HasKey(Meta(target).columns, prop)
                    THEN ColumnName(target, prop) ELSE LowerCase(op.cls) \o "_id"
        rows   == db[TableName(target)].rows
    IN  IF ~Truthy(id)
          THEN err = "" /\ stmts = <<>> /\ ret = List(<<>>)
          ELSE /\ stmts = <<[NoStmt EXCEPT !.kind = "SELECT", !.table = TableName(target),
                                           !.where = fk, !.params = <<id>>]>>
               /\ err \in {"", "db"}
               /\ err = "" =>
                     /\ ret[1] = "list"
                     /\ Len(ret[2]) = Cardinality({i \in 1..Len(rows) : rows[i][fk] = id})
                     /\ \A j \in 1..Len(ret[2]) :
                           /\ ret[2][j][2].cls = target
                           /\ Get(ret[2][j][2].props, PropertyOf(target, fk)) = id

\* C10 witness: User.drafts (no mappedBy) of user 1 resolved to a post through user_id
C10_Witness ==
  /\ op.name = "loadOneToMany" /\ op.cls = "User" /\ op.arg = Str("drafts") /\ err = ""
  /\ Len(stmts) = 1
  /\ stmts[1].where = "user_id" /\ stmts[1].params = <<Num(1)>>
  /\ ret[1] = "list" /\ Len(ret[2]) = 1
  /\ Get(ret[2][1][2].props, "user_id") = Num(1)

\* the identifier value loadOneToMany keys on: entity[idProperty] || entity.id
OwnerId == OrElse(IdBefore, Get(op.before, "id"))

\* the descriptor the last loadOneToOne was given
LoadedOneToOne ==
  CHOOSE m \in OneToOneDescriptors(op.cls) : m.prop = op.arg[2]

\* the last call resolved a one-to-many relationship, or a one-to-one from
\* its inverse side (a descriptor with mappedBy)
InverseSideLoaded ==
  \/ op.name = "loadOneToMany"
  \/ op.name = "loadOneToOne" /\ LoadedOneToOne.mappedBy # ""

\* C11 as stated: resolving a one-to-many or inverse one-to-one relationship
\* for an owner that carries no identifier value throws a configuration
\* error and returns no (empty) result.
C11_NoOwnerIdFailsFast ==
  (InverseSideLoaded /\ ~Truthy(OwnerId)) => (err # "" /\ ret \notin {List(<<>>), Nil})

\* C11 amended: resolving a one-to-many or inverse one-to-one relationship
\* for an owner whose identifier value is falsy raises no error and sends
\* no query: the one-to-many resolves to the empty list, the inverse
\* one-to-one to none.
C11_NoOwnerIdResolvesEmpty ==
  (InverseSideLoaded /\ ~Truthy(OwnerId)) =>
    /\ err = ""
    /\ stmts = <<>>
    /\ ret = IF op.name = "loadOneToMany" THEN List(<<>>) ELSE Nil

\* C11 witness: the inverse one-to-one was resolved for a user never persisted
\* while the posts table held a row, and resolved to nothing
C11_Witness ==
  /\ op.name = "loadOneToOne" /\ op.arg = Str("profile")
  /\ held.cls = "User" /\ ~Truthy(Get(held.props, "id"))
  /\ Len(db["posts"].rows) > 0
  /\ err = "" /\ stmts = <<>> /\ ret = Nil

\* the join column Post declares for many-to-one property p, as the class
\* text reads: the @JoinColumn name, else the joinColumn option's name, else
\* "" for none declared
DeclaredJoinColumn(p) ==
  CASE p = "reviewer" -> "editor_id"
    [] p = "approver" -> "user_id"
    [] p = "auditor"  -> "editor_id"
    [] p = "signer"   -> "author_id"
    [] p = "checker"  -> "editor_id"
    [] p = "sponsor"  -> "author_id"
    [] OTHER          -> ""

\* the owner's foreign-key property for p: the declared join column name,
\* or <property>_id by convention
ForeignKeyProperty(p) ==
  IF DeclaredJoinColumn(p) # "" THEN DeclaredJoinColumn(p) ELSE p \o "_id"

\* the single-row lookup of the User whose referenced column (id unless
\* @JoinColumn names another) is key
UserLookup(key) ==
  [NoStmt EXCEPT !.kind = "SELECT", !.table = "users",
                 !.where = ReferencedColumn(op.cls, op.arg[2]),
                 !.params = <<key>>, !.limit = 1]

\* C12 as stated: whenever the owner's foreign-key property is null or
\* undefined, resolving the many-to-one relationship returns none and
\* sends no query, whatever the owner's other properties hold.
C12_AbsentReference ==
  (op.name = "loadManyToOne" /\ Get(op.before, ForeignKeyProperty(op.arg[2])) = Nil) =>
    (err = "" /\ ret = Nil /\ stmts = <<>>)

\* C12 amended: the key of the lookup is the owner's foreign-key property
\* or, when that is falsy, the relationship property itself.  Whenever both
\* are falsy the resolution returns none and sends no query; whenever the
\* foreign-key property is falsy and the relationship property is truthy,
\* exactly one lookup is sent, bound to the relationship property's value.
C12_AbsentKeyFallsBackToProperty ==
  (op.name = "loadManyToOne" /\ ~Truthy(Get(op.before, ForeignKeyProperty(op.arg[2])))) =>
    IF ~Truthy(Get(op.before, op.arg[2]))
      THEN err = "" /\ ret = Nil /\ stmts = <<>>
      ELSE stmts = <<UserLookup(Get(op.before, op.arg[2]))>>

\* C12 witness: a post with author 1 and user 2 but no editor had its
\* editor resolved to none without a query, while user 1 is stored
C12_Witness ==
  /\ op.name = "loadManyToOne" /\ op.arg = Str("editor")
  /\ Get(op.before, "editor_id") = Nil
  /\ Get(op.before, "author_id") = Num(1) /\ Get(op.before, "user_id") = Num(2)
  /\ Len(db["users"].rows) > 0
  /\ err = "" /\ ret = Nil /\ stmts = <<>>

MappedByColumn(mappedBy) == IF mappedBy = "author_id" THEN "author_id" ELSE "user_id"

\* the rows of posts whose column fk equals id, in table order
PostsOf(fk, id) ==
  Filter(db["posts"].rows, [i \in 1..Len(db["posts"].rows) |-> db["posts"].rows[i][fk] = id])

\* C15: resolving a one-to-many relationship with mappedBy for an owner
\* with an identifier returns exactly the target rows whose foreign-key
\* column equals the owner's identifier, none missing and none extra, in
\* result-set order, as target instances; the foreign-key column is the
\* column the target declares for the mappedBy property, or else
\* <owner class, lower-cased>_id.
C15_OneToManyExact ==
  (op.name = "loadOneToMany" /\ LoadedRel.mappedBy # "" /\ Truthy(OwnerId)) =>
    LET found == PostsOf(MappedByColumn(LoadedRel.mappedBy), OwnerId)
    IN  /\ err = ""
        /\ stmts = <<[NoStmt EXCEPT !.kind = "SELECT", !.table = "posts",
                                    !.where = MappedByColumn(LoadedRel.mappedBy),
                                    !.params = <<OwnerId>>]>>
        /\ ret = List([i \in 1..Len(found) |-> Obj("Post", found[i])])

\* C15 witness: user 1 has two posts through mappedBy 'author_id', and both
\* came back, in order, while user 2 exists as well
C15_Witness ==
  /\ op.name = "loadOneToMany" /\ op.arg = Str("posts") /\ OwnerId = Num(1)
  /\ Len(db["users"].rows) = 2
  /\ err = "" /\ ret[1] = "list" /\ Len(ret[2]) = 2
  /\ Get(ret[2][1][2].props, "id") = Num(1) /\ Get(ret[2][2][2].props, "id") = Num(2)
  /\ Get(ret[2][1][2].props, "author_id") = Num(1)
  /\ Get(ret[2][2][2].props, "author_id") = Num(1)

\* the join query of the posts linked to owner id through bridge table t
\* with owning column owning and inverse column inverse
PostsLinked(id, t, owning, inverse) ==
  [NoStmt EXCEPT !.kind = "JOIN", !.table = "posts", !.targetIdColumn = "id",
                 !.joinTable = t, !.joinColumn = owning, !.inverseJoinColumn = inverse,
                 !.params = <<id>>]

\* the bridge names User declares for many-to-many property p, as the class
\* text reads, and the conventional name for each one it leaves out:
\* <<table, owning column, inverse column>>
BridgeNames(p) ==
  CASE p = "starred" -> <<"likes", "liker", "post">>
    [] p = "pinned"  -> <<"user_liked", "user_id", "post_id">>
    [] p = "shared"  -> <<"user_liked", "user_id", "post_id">>
    [] OTHER         -> <<"user_" \o p, "user_id", "post_id">>

\* C14 as stated: the join query of a many-to-many relationship uses the
\* explicitly declared bridge table and bridge column names, and for each
\* name not declared the conventional one from the lower-cased class names
\* (<owner>_<property>, <owner>_id, <target>_id), also when a join-table
\* declaration without a name is attached to the property.
C14_BridgeNames ==
  (op.name = "loadManyToMany" /\ Truthy(OwnerId)) =>
    stmts = <<PostsLinked(OwnerId, BridgeNames(op.arg[2])[1], BridgeNames(op.arg[2])[2],
                          BridgeNames(op.arg[2])[3])>>

----
(***************************************************************************)
(* Properties of the fluent interface, checked under SpecBuilder           *)
(***************************************************************************)

\* C16: the parameter list getMany hands to the pool is the concatenation,
\* in call order, of the values passed to the where and andWhere calls, and
\* the WHERE clause lists their conditions in the same order, whatever
\* select, join, leftJoin, orderBy and limit calls come in between: every
\* where/andWhere call appends its condition and its values behind those
\* held, every other builder call leaves both lists as they are, and
\* getMany sends the one statement that carries the two lists as held.
C16_ParameterAlignment ==
  [][ /\ op'.name \in {"where", "andWhere"} =>
            /\ Flatten(qb'.whereClauses) = Flatten(qb.whereClauses) \o op'.arg[2][1]
            /\ qb'.whereParams = qb.whereParams \o op'.arg[2][2]
      /\ op'.name \in {"select", "join", "leftJoin", "orderBy", "limit"} =>
            /\ qb'.whereClauses = qb.whereClauses
            /\ qb'.whereParams = qb.whereParams
      /\ op'.name = "getMany" =>
            /\ qb' = qb
            /\ Len(stmts') = 1
            /\ stmts'[1].kind = "QUERY"
            /\ stmts'[1].wheres = Flatten(qb.whereClauses)
            /\ stmts'[1].params = qb.whereParams ]_vars

\* C16 witness: where(item_name), orderBy, limit, andWhere(id AND item_name)
\* were chained in some order with the order clause and the limit set, and
\* getMany bound 'a', 2, 'a' to item_name, id, item_name and found item 2
C16_Witness ==
  /\ op.name = "getMany" /\ err = ""
  /\ qb.orderByClause = <<"id", "DESC">> /\ qb.limitClause = 1
  /\ stmts[1].wheres = <<"item_name", "id", "item_name">>
  /\ stmts[1].params = <<Str("a"), Num(2), Str("a")>>
  /\ ret[1] = "list" /\ Len(ret[2]) = 1

\* the rows the database gives for the builder's statement
Fetched == Execute(db, GetManyStmt(qb)).rows

\* row i of Fetched as an instance of the builder's entity class, filled
\* through the column descriptors of the class
Mapped(i) == MapRowToEntity(qb.entityClass, Fetched[i], db[qb.fromClause].cols)

\* C17 as stated: getMany on an unjoined SELECT * returns each row the
\* database gave as an instance of the builder's entity class, its
\* properties filled through the column descriptors (column item_name to
\* property name), and getOne returns the first of these, or none when the
\* database gave no row.
C17_RowsMappedToEntities ==
  (err = "" /\ qb.selectClause = "*" /\ qb.joinClauses = <<>>) =>
    /\ op.name = "getMany" =>
          ret = List([i \in 1..Len(Fetched) |-> Mapped(i)])
    /\ op.name = "getOne" =>
          ret = IF Len(Fetched) > 0 THEN Mapped(1) ELSE Nil

----
(***************************************************************************)
(* Properties of the container, checked under SpecDI                       *)
(***************************************************************************)

\* the bean name the getBean call of this step resolves its argument to,
\* "" when its argument is a class that no registered type matches
Asked ==
  IF op'.cls # "" THEN NameByType(container.beanTypes, op'.cls) ELSE op'.arg[2]

\* this step is a getBean call that finds no singleton of the bean cached
Materializes == op'.name = "getBean" /\ Asked # "" /\ Asked \notin DOMAIN container.beans

\* this step repeats the successful getBean call before it
Repeats ==
  /\ op.name = "getBean" /\ err = ""
  /\ op'.name = "getBean" /\ op'.cls = op.cls /\ op'.arg = op.arg

\* the value is an object constructed by this step
NewlyMade(value) ==
  /\ value[1] = "bean"
  /\ value[2].made > container.made
  /\ value[2].made <= container'.made

\* C18 as stated: a getBean call that repeats the one before it returns the
\* identical instance, and a getBean call made right after clear()
\* succeeds and returns a newly constructed instance.
C18_ClearThenGetBeanConstructs ==
  [][ /\ Repeats => (err' = "" /\ ret' = ret)
      /\ (op.name = "clear" /\ op'.name = "getBean") => (err' = "" /\ NewlyMade(ret')) ]_vars

\* C18 amended: a getBean call that repeats the one before it returns the
\* identical instance and changes nothing; clear() empties the type map
\* with the singleton cache, so a getBean call made right after clear()
\* raises bean-not-found and leaves the container as it is; and every
\* successful getBean call for a bean with no cached singleton (as after
\* clear() and a new registerBean without an instance) returns an object
\* constructed by that call, distinct from every object made before, and
\* caches it.
C18_MemoizedUntilCleared ==
  [][ /\ Repeats => (err' = "" /\ ret' = ret /\ container' = container)
      /\ op'.name = "clear" => (container'.beans = NoProps /\ container'.beanTypes = <<>>)
      /\ (op.name = "clear" /\ op'.name = "getBean") =>
            (err' = "not found" /\ container' = container)
      /\ (Materializes /\ err' = "") =>
            (NewlyMade(ret') /\ container'.beans[Asked] = ret') ]_vars

\* C18 witness: the second object of the run is the AuditService singleton
\* that getBean('AuditService') built and cached in a container whose
\* cache holds nothing else: the run's first object was dropped by a
\* clear(), and AuditService was registered again before the call
C18_Witness ==
  /\ op.name = "getBean" /\ op.arg = Str("AuditService") /\ err = ""
  /\ ret = Bean("AuditService", 2, <<Nil, Nil>>, NoProps)
  /\ container.beans = Put(NoProps, "AuditService", ret)

\* this step is a registerBean call
Registers == op'.name = "registerBean"

\* C19 as stated: a registerBean call, with or without an instance,
\* replaces the registered type of its bean name and leaves a singleton
\* cached under that name untouched, so that a later getBean returns it.
C19_SingletonSurvivesRegistration ==
  [][ /\ Registers => TypeByName(container'.beanTypes, BeanName(op'.cls)) = op'.cls
      /\ (Registers /\ BeanName(op'.cls) \in DOMAIN container.beans) =>
            container'.beans[BeanName(op'.cls)] = container.beans[BeanName(op'.cls)]
      /\ (op'.name = "getBean" /\ Asked \in DOMAIN container.beans) =>
            (err' = "" /\ ret' = container.beans[Asked]) ]_vars

\* C19 amended: a registerBean call replaces the registered type of its
\* bean name; without an instance it leaves the singleton cache untouched,
\* with an instance it puts that instance in the cache under the bean name,
\* in place of a singleton cached there; getBean returns what the cache
\* holds under the name.
C19_SuppliedInstanceReplaces ==
  [][ /\ Registers => TypeByName(container'.beanTypes, BeanName(op'.cls)) = op'.cls
      /\ (Registers /\ op'.arg = Nil) => container'.beans = container.beans
      /\ (Registers /\ op'.arg # Nil) =>
            container'.beans = Put(container.beans, BeanName(op'.cls), op'.arg)
      /\ (op'.name = "getBean" /\ Asked \in DOMAIN container.beans) =>
            (err' = "" /\ ret' = container.beans[Asked]) ]_vars

\* C19 witness: registerBean(CachingUserRepository, instance) put its
\* instance, the second object of the run, in the place of the singleton
\* cached under 'UserRepository'
C19_Witness ==
  /\ op.name = "registerBean" /\ op.cls = "CachingUserRepository"
  /\ op.arg[1] = "bean" /\ op.arg[2].made = 2
  /\ DOMAIN container.beans = {"UserRepository"}
  /\ container.beans["UserRepository"] = op.arg
  /\ TypeByName(container.beanTypes, "UserRepository") = "CachingUserRepository"
  /\ Len(container.beanTypes) = 1

\* the class registered under the bean this step's getBean call asks for
AskedType == TypeByName(container.beanTypes, Asked)

\* no registered type is the class t
NeverRegistered(t) == \A i \in 1..Len(container.beanTypes) : container.beanTypes[i].type # t

Resolved(t) ==
  IF t = "Pool" /\ container.pool # Nil THEN Pool
  ELSE IF NameByType(container.beanTypes, t) = "" THEN Nil
  ELSE Get(container'.beans, NameByType(container.beanTypes, t))

Matching ==
  {i \in 1..Len(container.beanTypes) :
     \/ container.beanTypes[i].type = op'.cls
     \/ Extends(container.beanTypes[i].type, op'.cls)}

\* the bean name at the first of the matching places
FirstMatching ==
  container.beanTypes[CHOOSE i \in Matching : \A j \in Matching : i <= j].name

\* C21: getBean by class raises bean-not-found and leaves the container as
\* it is when no registered type is the class or extends it; when one does
\* and the call returns, it returns the singleton cached under the name of
\* such a type, without constructing anything when that singleton is cached
\* already; getBean by a name with no registration raises bean-not-found
\* and leaves the container as it is.
C21_LookupByType ==
  [][ op'.name = "getBean" =>
        /\ (op'.cls # "" /\ Matching = {}) => (err' = "not found" /\ container' = container)
        /\ (op'.cls # "" /\ Matching # {} /\ err' = "") =>
              \E i \in Matching : ret' = container'.beans[container.beanTypes[i].name]
        /\ (op'.cls # "" /\ Matching # {} /\ FirstMatching \in DOMAIN container.beans) =>
              (err' = "" /\ ret' = container.beans[FirstMatching] /\ container' = container)
        /\ (op'.cls = "" /\ TypeByName(container.beanTypes, op'.arg[2]) = "") =>
              (err' = "not found" /\ container' = container) ]_vars

\* C21 witness: getBean(Mailer), with SmtpMailer the one registered type
\* that extends Mailer, returned the SmtpMailer singleton
C21_Witness ==
  /\ op.name = "getBean" /\ op.cls = "Mailer" /\ err = ""
  /\ ret[2].cls = "SmtpMailer"
  /\ container.beans["SmtpMailer"] = ret
  /\ \A i \in 1..Len(container.beanTypes) : container.beanTypes[i].type # "Mailer"

----
(***************************************************************************)
(* Properties of the lookup by class, checked under SpecScan               *)
(***************************************************************************)

\* C29 as stated: getBean by a class that is itself registered returns the
\* bean registered under that class, an instance of it, whatever the order
\* of the registrations.
C29_ExactTypeWins ==
  [][ (/\ op'.name = "getBean" /\ op'.cls # ""
       /\ \E i \in 1..Len(container.beanTypes) : container.beanTypes[i].type = op'.cls) =>
        /\ err' = ""
        /\ ret'[2].cls = op'.cls
        /\ ret' = container'.beans[BeanName(op'.cls)] ]_vars

----
(***************************************************************************)
(* Properties of dependency cycles, checked under SpecWiring               *)
(***************************************************************************)

\* the registered bean names with no singleton cached
Unmade ==
  {container.beanTypes[i].name : i \in 1..Len(container.beanTypes)} \ DOMAIN container.beans

\* C28 as stated: a getBean call ends by itself, with an instance or an
\* error of the container and not with the exhaustion of the call stack,
\* and constructs at most one instance for each bean name that has no
\* singleton yet.
C28_TerminatesOncePerBean ==
  [][ op'.name = "getBean" =>
        /\ err' \in {"", "not found"}
        /\ container'.made - container.made <= Cardinality(Unmade) ]_vars

----
(***************************************************************************)
(* Properties of classes with no entity descriptor in schema generation    *)
(* and in QueryBuilder, checked under SpecQuery                            *)
(***************************************************************************)

\* the configured classes that carry an entity descriptor, in order
ConfiguredEntities ==
  Filter(entities, [i \in 1..Len(entities) |-> Meta(entities[i]).entity # ""])

\* the rows of t that satisfy every condition the builder holds
Satisfying(t) ==
  Filter(t.rows, [i \in 1..Len(t.rows) |->
                    \A j \in 1..Len(Flatten(qb.whereClauses)) :
                      /\ t.rows[i][Flatten(qb.whereClauses)[j]] # Nil
                      /\ t.rows[i][Flatten(qb.whereClauses)[j]] = qb.whereParams[j]])

\* C8 as stated: a QueryBuilder query on a class with no entity descriptor
\* throws without sending a statement, and schema generation over a
\* configuration holding such a class fails with an error.
C8_NonEntityRejected ==
  /\ (op.name \in {"getMany", "getOne"} /\ Meta(op.cls).entity = "") =>
        (err # "" /\ stmts = <<>>)
  /\ (op.name = "generateSchema" /\ Len(ConfiguredEntities) < Len(entities)) =>
        err # ""

\* C8 amended: schema generation skips a class with no entity descriptor
\* silently (no error, and exactly the table-exists query and the CREATE
\* TABLE of each configured entity class, in order); a QueryBuilder bound to such a class makes no entity
\* check: getMany and getOne send the one SELECT on the class's table name
\* (its @Table name, or else the lower-cased class name) and give what the
\* database gives: its failure when the table or a column is unknown, else
\* the matching rows.
C8_NonEntitySkippedAndQueried ==
  /\ (op.name = "generateSchema" /\ Len(ConfiguredEntities) < Len(entities)) =>
        /\ err = ""
        /\ Len(stmts) = 2 * Len(ConfiguredEntities)
        /\ \A i \in 1..Len(ConfiguredEntities) :
              /\ stmts[2 * i - 1].kind = "EXISTS"
              /\ stmts[2 * i - 1].params = <<Str(TableName(ConfiguredEntities[i]))>>
              /\ stmts[2 * i].kind = "CREATE"
              /\ stmts[2 * i].table = TableName(ConfiguredEntities[i])
              /\ stmts[2 * i].cols = [j \in 1..Len(Meta(ConfiguredEntities[i]).columns) |->
                                        Meta(ConfiguredEntities[i]).columns[j].name]
        /\ DOMAIN db = {TableName(ConfiguredEntities[i]) : i \in 1..Len(ConfiguredEntities)}
  /\ (op.name \in {"getMany", "getOne"} /\ Meta(op.cls).entity = "") =>
        LET table == TableName(op.cls)
            known == /\ table \in DOMAIN db
                     /\ Range(Flatten(qb.whereClauses)) \subseteq Range(db[table].cols)
        IN  /\ Len(stmts) = 1
            /\ stmts[1].kind = "QUERY"
            /\ stmts[1].table = table
            /\ stmts[1].wheres = Flatten(qb.whereClauses)
            /\ stmts[1].params = qb.whereParams
            /\ err = IF known THEN "" ELSE "db"
            /\ (known /\ op.name = "getMany") =>
                  LET found == Satisfying(db[table])
                      n     == IF qb.limitClause > 0 /\ Len(found) > qb.limitClause
                                 THEN qb.limitClause ELSE Len(found)
                  IN  ret = List([i \in 1..n |-> Row(found[i])])
            /\ (known /\ op.name = "getOne") =>
                  ret = IF Satisfying(db[table]) = <<>> THEN Nil
                        ELSE Row(Satisfying(db[table])[1])

\* C8 witness: Plain (no @Entity, @Table('item')) was configured next to
\* Item, and a QueryBuilder on Plain returned the item row named "a"
C8_Witness ==
  /\ entities = <<"Plain", "Item">>
  /\ DOMAIN db = {"item"}
  /\ op.name = "getMany" /\ op.cls = "Plain" /\ err = ""
  /\ qb.whereClauses = <<<<"item_name">>>>
  /\ ret = List(<<Row([id |-> Num(1), item_name |-> Str("a")])>>)

====
